---- MODULE Spec2Model ----
(***************************************************************************)
(* A model of src/app.py: the mock-data engine (catalog construction,      *)
(* basket synthesis, Duo-set bundle conversion, record emission), the     *)
(* dashboard aggregation callback refresh_dashboard and the callbacks of   *)
(* the page's controls.                                                    *)
(*                                                                         *)
(* Python dicts are modelled as sequences of entries in insertion order,   *)
(* calls to the random module as nondeterministic choices, and dates as    *)
(* proleptic Gregorian ordinals (date.toordinal()).                        *)
(***************************************************************************)
EXTENDS Integers, Sequences, FiniteSets, TLC

VARIABLES
    pc,               \* position inside one iteration of the order loop
    index,            \* loop variable of "for index in range(50000)"
    platform,         \* channel drawn for the current order
    order_items,      \* the basket: dict product_id -> entry, insertion order
    total_qty,        \* pick_order_items: units drawn so far
    continuation_prob,\* pick_order_items: continuation probability, in tenths
    picked_items,     \* the basket as pick_order_items returned it
    orders,           \* order records appended by the current iteration
    product_orders,   \* order-item records appended by the current iteration
    ORDERS_DF,        \* the order records the dashboard reads
    ORDER_ITEMS_DF,   \* the order-item records merged with their orders
    dash_in,          \* arguments of the last refresh_dashboard call
    dash_out,         \* what that call returned
    draw,             \* a call of random.choices: population, weights, outcome
    rerun,            \* starts of the process: the generator's stream after
                      \* random.seed(7), the order count, the day, each
                      \* start's record sets
    controls          \* the period, the week-offset Store, the date controls
                      \* and the checklists of the page, with the arguments
                      \* of the last call of each of their callbacks

synth_vars == <<pc, index, platform, order_items, total_qty, continuation_prob,
                picked_items, orders, product_orders>>
dash_vars == <<ORDERS_DF, ORDER_ITEMS_DF, dash_in, dash_out>>
vars == <<pc, index, platform, order_items, total_qty, continuation_prob,
          picked_items, orders, product_orders, ORDERS_DF, ORDER_ITEMS_DF, dash_in, dash_out,
          draw, rerun, controls>>

-----------------------------------------------------------------------------
(* Bounds of the exploration *)

\* orders synthesized in one behaviour (the code's loop runs 50000 times)
MaxOrders == 1
\* distinct products a basket may hold while it is being drawn
MaxDistinct == 3
\* largest week offset the Prev button is pressed to
MaxWeekOffset == 2
\* orders synthesized by each start of the process that is run again
MaxRerunOrders == 2
\* midnights that pass between the starts of the process
MaxMidnights == 1

-----------------------------------------------------------------------------
(* Helpers on sequences *)

RECURSIVE SumSeq(_)
SumSeq(s) == IF s = <<>> THEN 0 ELSE Head(s) + SumSeq(Tail(s))

Range(s) == {s[i] : i \in 1..Len(s)}

Min(a, b) == IF a <= b THEN a ELSE b

Max(a, b) == IF a >= b THEN a ELSE b

-----------------------------------------------------------------------------
(* Module-level tables *)

PRODUCT_GROUPS ==
    <<"Cold brew", "Cold drip", "Duo set", "Matcha", "Bakery", "Coffee Bean",
      "Drip Bag", "Others">>

platforms == <<"Shopee", "Lazada", "Tiktok", "LineOA", "Facebook", "LineShopping">>

platform_weights ==
    [p \in Range(platforms) |->
        CASE p = "Facebook" -> 2 [] p = "Lazada" -> 10 [] p = "LineOA" -> 3
          [] p = "LineShopping" -> 5 [] p = "Shopee" -> 50 [] p = "Tiktok" -> 30]

\* group_names = list(group_weights.keys()), the keys in their literal order
group_names ==
    <<"Cold brew", "Cold drip", "Duo set", "Matcha", "Bakery", "Coffee Bean",
      "Drip Bag", "Others">>

group_weights ==
    [g \in Range(group_names) |->
        CASE g = "Cold brew" -> 40 [] g = "Cold drip" -> 20 [] g = "Duo set" -> 15
          [] g = "Matcha" -> 10 [] g = "Bakery" -> 3 [] g = "Coffee Bean" -> 5
          [] g = "Drip Bag" -> 2 [] g = "Others" -> 5]

eligible_channels == {"Shopee", "Tiktok", "LineShopping", "Lazada"}

eligible_cold_brew == <<"Original", "Dark Edition", "Fruity Delight", "Milky">>

eligible_cold_drip == <<"On the rock", "Monday Morning", "Natural wonder", "Vanilla Sundae">>

-----------------------------------------------------------------------------
(* Catalog construction *)

\* size_ml=None of an unsized product
NoSize == 0

\* f"P{product_counter:03d}"
FormatProductId(n) ==
    "P" \o (IF n < 10 THEN "00" ELSE IF n < 100 THEN "0" ELSE "") \o ToString(n)

\* the registries before the first add_product; product_counter is
\* Len(registry) + 1
EmptyCatalog ==
    [registry |-> <<>>, products_by_group |-> [g \in Range(PRODUCT_GROUPS) |-> <<>>]]

\* product_registry_by_name[name]: the product registered last under name
ByName(cat, name) ==
    LET hits == {i \in 1..Len(cat.registry) : cat.registry[i].product_name = name}
    IN  cat.registry[CHOOSE i \in hits : \A j \in hits : j <= i]

\* product_registry_by_id[product_id]
ById(cat, product_id) ==
    cat.registry[CHOOSE i \in 1..Len(cat.registry) :
                    cat.registry[i].product_id = product_id]

\* add_product with the product appended to its selection list whatever
\* include_in_selection says
add_product_always_selectable(cat, name, group, price, size_ml, base_name, include_in_selection) ==
    LET product == [product_id |-> FormatProductId(Len(cat.registry) + 1),
                    product_name |-> name,
                    product_category |-> group,
                    group_name |-> group,
                    price |-> price,
                    size_ml |-> size_ml,
                    base_name |-> IF base_name = "" THEN name ELSE base_name]
    IN  [registry |-> Append(cat.registry, product),
         products_by_group |->
            [cat.products_by_group EXCEPT ![group] = Append(@, product)]]

add_product(cat, name, group, price, size_ml, base_name, include_in_selection) ==
    LET product == [product_id |-> FormatProductId(Len(cat.registry) + 1),
                    product_name |-> name,
                    product_category |-> group,
                    group_name |-> group,
                    price |-> price,
                    size_ml |-> size_ml,
                    base_name |-> IF base_name = "" THEN name ELSE base_name]
    IN  [registry |-> Append(cat.registry, product),
         products_by_group |->
            IF include_in_selection
            THEN [cat.products_by_group EXCEPT ![group] = Append(@, product)]
            ELSE cat.products_by_group]

\* 1000 if size_label == "1L" else int(size_label.replace("ml", ""))
ParseSize(size_label) ==
    IF size_label = "1L" THEN 1000
    ELSE CASE size_label = "200ml" -> 200
           [] size_label = "500ml" -> 500

RECURSIVE add_sized_products(_, _, _, _)
add_sized_products(cat, base_name, group, sizes) ==
    IF sizes = <<>> THEN cat
    ELSE add_sized_products(
            add_product(cat, base_name \o " " \o Head(sizes)[1], group, Head(sizes)[2],
                        ParseSize(Head(sizes)[1]), base_name, TRUE),
            base_name, group, Tail(sizes))

\* add_product(name, group, price) with the defaults of the other parameters
add_plain(cat, name, group, price) ==
    add_product(cat, name, group, price, NoSize, "", TRUE)

\* the calls of lines 99-137, in order: <<"sized", base_name, group, sizes>>
\* for add_sized_products and <<"plain", name, group, price>> for add_product
BaseCalls ==
    <<(<<"sized", "Original", "Cold brew", <<(<<"200ml", 75>>), (<<"1L", 265>>)>> >>),
      (<<"sized", "Dark Edition", "Cold brew", <<(<<"200ml", 75>>), (<<"1L", 265>>)>> >>),
      (<<"sized", "Fruity Delight", "Cold brew", <<(<<"200ml", 75>>), (<<"1L", 279>>)>> >>),
      (<<"sized", "Milky", "Cold brew", <<(<<"200ml", 85>>), (<<"1L", 299>>)>> >>),
      (<<"plain", "Peachful", "Cold brew", 420>>),
      (<<"plain", "Saen Chai", "Cold brew", 420>>),
      (<<"plain", "Namwhan", "Cold brew", 380>>),
      (<<"plain", "Small Set", "Cold brew", 310>>),
      (<<"sized", "On the rock", "Cold drip", <<(<<"500ml", 325>>), (<<"1L", 550>>)>> >>),
      (<<"sized", "Monday Morning", "Cold drip", <<(<<"500ml", 335>>), (<<"1L", 590>>)>> >>),
      (<<"sized", "Natural wonder", "Cold drip", <<(<<"500ml", 420>>)>> >>),
      (<<"sized", "Vanilla Sundae", "Cold drip", <<(<<"500ml", 445>>)>> >>),
      (<<"sized", "Itim Kati", "Cold drip", <<(<<"500ml", 445>>)>> >>),
      (<<"plain", "Duo set Original", "Duo set", 170>>),
      (<<"plain", "Duo set Dark", "Duo set", 170>>),
      (<<"plain", "Duo set Fruity", "Duo set", 170>>),
      (<<"plain", "Duo set Milky", "Duo set", 170>>),
      (<<"plain", "umiro", "Matcha", 650>>),
      (<<"plain", "haruno", "Matcha", 650>>),
      (<<"plain", "rinro", "Matcha", 1280>>),
      (<<"plain", "asumi", "Matcha", 720>>),
      (<<"plain", "Mini Crosaint", "Bakery", 100>>),
      (<<"plain", "Original", "Coffee Bean", 235>>),
      (<<"plain", "Dark", "Coffee Bean", 235>>),
      (<<"plain", "Fruity", "Coffee Bean", 235>>),
      (<<"plain", "Milky", "Coffee Bean", 255>>),
      (<<"plain", "Coffee Drip D", "Drip Bag", 25>>),
      (<<"plain", "Coffee Drip MD", "Drip Bag", 25>>),
      (<<"plain", "Coffee Drip ML", "Drip Bag", 25>>),
      (<<"plain", "Coffee Drip M", "Drip Bag", 35>>),
      (<<"plain", "Tumbler", "Others", 350>>),
      (<<"plain", "Lamoon cup", "Others", 95>>)>>

\* the registries after the calls have run, one after the other
RECURSIVE RunCalls(_, _)
RunCalls(cat, calls) ==
    IF calls = <<>> THEN cat
    ELSE LET c == Head(calls)
         IN  RunCalls(IF c[1] = "plain"
                      THEN add_plain(cat, c[2], c[3], c[4])
                      ELSE add_sized_products(cat, c[2], c[3], c[4]),
                      Tail(calls))

\* the registries when line 137 has run
BaseCatalog == RunCalls(EmptyCatalog, BaseCalls)

\* add_duo_product with the bundle priced as the source product alone
add_duo_product_base_price(cat, source_name, duo_name, base_name) ==
    LET product == ByName(cat, source_name)
    IN  add_product(cat, duo_name, "Duo set", product.price,
                    product.size_ml, base_name, FALSE)

\* one iteration of either bundle loop: the bundle SKU of the product named
\* source_name, registered as duo_name and kept out of the selection lists
add_duo_product(cat, source_name, duo_name, base_name) ==
    LET product == ByName(cat, source_name)
        lamoon_cup == ByName(cat, "Lamoon cup")
    IN  add_product(cat, duo_name, "Duo set", product.price + lamoon_cup.price,
                    product.size_ml, base_name, FALSE)

\* for base_name in eligible_cold_brew: ...
RECURSIVE add_cold_brew_duos(_, _)
add_cold_brew_duos(cat, names) ==
    IF names = <<>> THEN cat
    ELSE add_cold_brew_duos(
            add_duo_product(cat, Head(names) \o " 1L",
                            "Duo set " \o Head(names) \o " 1L", Head(names)),
            Tail(names))

\* for base_name in eligible_cold_drip: ...
RECURSIVE add_cold_drip_duos(_, _)
add_cold_drip_duos(cat, names) ==
    IF names = <<>> THEN cat
    ELSE add_cold_drip_duos(
            add_duo_product(cat, Head(names) \o " 500ml",
                            "Duo set " \o Head(names), Head(names)),
            Tail(names))

\* the registries as make_mock_data uses them from line 167 on
Catalog ==
    add_cold_drip_duos(add_cold_brew_duos(BaseCatalog, eligible_cold_brew),
                       eligible_cold_drip)

lamoon == ByName(Catalog, "Lamoon cup")

products_by_group == Catalog.products_by_group

\* the products registered with include_in_selection=False
BundleIds ==
    {Catalog.registry[i].product_id : i \in Len(BaseCatalog.registry) + 1 .. Len(Catalog.registry)}

-----------------------------------------------------------------------------
(* Baskets: dict product_id -> entry *)

\* position of the entry stored under product_id, 0 when the key is absent
KeyIndex(items, product_id) ==
    LET hits == {i \in 1..Len(items) : items[i].product_id = product_id}
    IN  IF hits = {} THEN 0 ELSE CHOOSE i \in hits : TRUE

HasKey(items, product_id) == KeyIndex(items, product_id) # 0

\* del order_items[product_id]
DelKey(items, product_id) ==
    LET k == KeyIndex(items, product_id)
    IN  SubSeq(items, 1, k - 1) \o SubSeq(items, k + 1, Len(items))

Quantities(items) == [i \in 1..Len(items) |-> items[i].quantity]

ItemSales(items) == [i \in 1..Len(items) |-> items[i].item_sales]

add_order_item(items, product, quantity) ==
    LET k == KeyIndex(items, product.product_id)
        item_sales == product.price * quantity
    IN  IF k # 0
        THEN [items EXCEPT ![k].quantity = @ + quantity,
                           ![k].item_sales = @ + item_sales]
        ELSE Append(items, [product_id |-> product.product_id,
                            product_name |-> product.product_name,
                            product_category |-> product.product_category,
                            base_name |-> product.base_name,
                            size_ml |-> product.size_ml,
                            quantity |-> quantity,
                            item_sales |-> item_sales])

-----------------------------------------------------------------------------
(* apply_duo_conversion *)

\* IsConvertible without the tests of size_ml
IsConvertible_any_size(entry) ==
    LET product == ById(Catalog, entry.product_id)
    IN  \/ /\ product.group_name = "Cold brew"
           /\ product.base_name \in Range(eligible_cold_brew)
        \/ /\ product.group_name = "Cold drip"
           /\ product.base_name \in Range(eligible_cold_drip)

\* the test of lines 205-216 on one basket entry
IsConvertible(entry) ==
    LET product == ById(Catalog, entry.product_id)
    IN  \/ /\ product.group_name = "Cold brew"
           /\ product.size_ml = 1000
           /\ product.base_name \in Range(eligible_cold_brew)
        \/ /\ product.group_name = "Cold drip"
           /\ product.size_ml = 500
           /\ product.base_name \in Range(eligible_cold_drip)

\* [product_id] * quantity
Repeat(x, n) == [i \in 1..n |-> x]

\* eligible_ids as the loop of lines 203-216 leaves it
RECURSIVE EligibleIds(_)
EligibleIds(items) ==
    IF items = <<>> THEN <<>>
    ELSE (IF IsConvertible(Head(items))
          THEN Repeat(Head(items).product_id, Head(items).quantity)
          ELSE <<>>) \o EligibleIds(Tail(items))

Count(s, x) == Cardinality({i \in 1..Len(s) : s[i] = x})

\* random.shuffle(eligible_ids): what the first n places can hold afterwards
\* (any arrangement that uses no id more often than the list holds it)
ShuffledPrefixes(eligible_ids, n) ==
    {s \in [1..n -> Range(eligible_ids)] :
        \A x \in Range(eligible_ids) : Count(s, x) <= Count(eligible_ids, x)}

\* the name of the bundle SKU that replaces product (lines 234-237)
DuoName(product) ==
    IF product.group_name = "Cold brew"
    THEN "Duo set " \o product.base_name \o " 1L"
    ELSE "Duo set " \o product.base_name

\* ConvertOne with the source quantity raised instead of lowered
ConvertOne_sign_slip(items, product_id) ==
    LET product == ById(Catalog, product_id)
        k == KeyIndex(items, product_id)
        raised == [items EXCEPT ![k].quantity = @ + 1,
                                ![k].item_sales = @ + product.price]
    IN  add_order_item(raised, ByName(Catalog, DuoName(product)), 1)

\* ConvertOne with the source entry's item_sales left as it was
ConvertOne_stale_sales(items, product_id) ==
    LET product == ById(Catalog, product_id)
        k == KeyIndex(items, product_id)
        lowered == [items EXCEPT ![k].quantity = @ - 1]
        kept == IF lowered[k].quantity <= 0 THEN DelKey(lowered, product_id) ELSE lowered
    IN  add_order_item(kept, ByName(Catalog, DuoName(product)), 1)

\* ConvertOne with the bundle unit left out
ConvertOne_no_bundle(items, product_id) ==
    LET product == ById(Catalog, product_id)
        k == KeyIndex(items, product_id)
        lowered == [items EXCEPT ![k].quantity = @ - 1,
                                 ![k].item_sales = @ - product.price]
    IN  IF lowered[k].quantity <= 0 THEN DelKey(lowered, product_id) ELSE lowered

\* one iteration of "for index in range(pairs)" on the unit product_id
ConvertOne(items, product_id) ==
    LET product == ById(Catalog, product_id)
        k == KeyIndex(items, product_id)
        lowered == [items EXCEPT ![k].quantity = @ - 1,
                                 ![k].item_sales = @ - product.price]
        kept == IF lowered[k].quantity <= 0 THEN DelKey(lowered, product_id) ELSE lowered
    IN  add_order_item(kept, ByName(Catalog, DuoName(product)), 1)

RECURSIVE ConvertPairs(_, _)
ConvertPairs(items, ids) ==
    IF ids = <<>> THEN items
    ELSE ConvertPairs(ConvertOne(items, Head(ids)), Tail(ids))

\* SettleLamoon with the accessory's item_sales not derived again
SettleLamoon_stale_sales(items, lamoon_qty) ==
    IF lamoon_qty <= 0
    THEN DelKey(items, lamoon.product_id)
    ELSE [items EXCEPT ![KeyIndex(items, lamoon.product_id)] =
            [@ EXCEPT !.quantity = lamoon_qty]]

\* lines 241-245: the accessory entry after the loop
SettleLamoon(items, lamoon_qty) ==
    IF lamoon_qty <= 0
    THEN DelKey(items, lamoon.product_id)
    ELSE [items EXCEPT ![KeyIndex(items, lamoon.product_id)] =
            [@ EXCEPT !.quantity = lamoon_qty, !.item_sales = lamoon_qty * lamoon.price]]

\* pairs = min(lamoon_qty, len(eligible_ids)); 0 on the three early returns
Pairs(items, channel) ==
    IF channel \notin eligible_channels \/ ~HasKey(items, lamoon.product_id)
    THEN 0
    ELSE Min(items[KeyIndex(items, lamoon.product_id)].quantity, Len(EligibleIds(items)))

\* apply_duo_conversion that converts one pair, however many there are
apply_duo_conversion_one_pair(items, channel, chosen) ==
    IF channel \notin eligible_channels THEN items
    ELSE IF ~HasKey(items, lamoon.product_id) THEN items
    ELSE IF EligibleIds(items) = <<>> THEN items
    ELSE LET lamoon_qty == items[KeyIndex(items, lamoon.product_id)].quantity
         IN  SettleLamoon(ConvertPairs(items, SubSeq(chosen, 1, 1)), lamoon_qty - 1)

\* apply_duo_conversion without the test of the channel; the units are
\* converted in the order the basket lists them
apply_duo_conversion_any_channel(items, channel, chosen) ==
    IF ~HasKey(items, lamoon.product_id) THEN items
    ELSE IF EligibleIds(items) = <<>> THEN items
    ELSE LET lamoon_qty == items[KeyIndex(items, lamoon.product_id)].quantity
             pairs == Min(lamoon_qty, Len(EligibleIds(items)))
         IN  SettleLamoon(ConvertPairs(items, SubSeq(EligibleIds(items), 1, pairs)),
                          lamoon_qty - pairs)

\* apply_duo_conversion(order_items, channel) when the shuffled eligible_ids
\* starts with chosen
apply_duo_conversion(items, channel, chosen) ==
    IF channel \notin eligible_channels THEN items
    ELSE IF ~HasKey(items, lamoon.product_id) THEN items
    ELSE IF EligibleIds(items) = <<>> THEN items
    ELSE LET lamoon_qty == items[KeyIndex(items, lamoon.product_id)].quantity
             pairs == Min(lamoon_qty, Len(EligibleIds(items)))
         IN  SettleLamoon(ConvertPairs(items, SubSeq(chosen, 1, pairs)), lamoon_qty - pairs)

-----------------------------------------------------------------------------
(* The order loop of make_mock_data *)

\* while total_qty < 10
QtyCap == 10

\* The products whose draws are explored. random.choice can return any
\* product of the drawn group; the others behave like one of these: an
\* eligible 1L Cold brew, an eligible 500ml Cold drip, the 1L size of an
\* eligible Cold drip base, the accessory, a product of another category that
\* costs as much as two units of the Cold drip. The last name is a bundle
\* SKU: it is drawn only if a selection list holds it.
ExploredNames ==
    {"Original 1L", "On the rock 500ml", "On the rock 1L", "Lamoon cup", "umiro",
     "Duo set Original 1L"}

\* The channels whose draws are explored: two of the promotion's channels
\* and one outside it; the other channels behave like one of these.
ExploredChannels == {"Shopee", "Lazada", "LineOA"}

\* round(x, 2) on an int returns the int
round2(x) == x

\* group_sales of lines 279-283: <<category, summed item_sales>> in the
\* order the categories first occur in the basket
RECURSIVE GroupSales(_, _)
GroupSales(items, acc) ==
    IF items = <<>> THEN acc
    ELSE LET c == Head(items).product_category
             hits == {i \in 1..Len(acc) : acc[i][1] = c}
         IN  GroupSales(Tail(items),
                IF hits = {}
                THEN Append(acc, <<c, Head(items).item_sales>>)
                ELSE LET k == CHOOSE i \in hits : TRUE
                     IN  [acc EXCEPT ![k] = <<c, @[2] + Head(items).item_sales>>])

\* max(group_sales, key=group_sales.get): the first key with the largest value
MaxGroup(group_sales) ==
    LET k == CHOOSE i \in 1..Len(group_sales) :
                /\ \A j \in 1..Len(group_sales) : group_sales[j][2] <= group_sales[i][2]
                /\ \A j \in 1..(i - 1) : group_sales[j][2] < group_sales[i][2]
    IN  group_sales[k][1]

\* f"ORD{10001 + index}"
FormatOrderId(i) == "ORD" \o ToString(10001 + i)

\* OrderRecord with total_sales summed over unit prices, the quantities ignored
OrderRecord_unit_prices(i, channel, items) ==
    [order_id |-> FormatOrderId(i),
     channel |-> channel,
     sales |-> round2(SumSeq([k \in 1..Len(items) |->
                                ById(Catalog, items[k].product_id).price])),
     group_name |-> MaxGroup(GroupSales(items, <<>>))]

\* the order record of lines 286-322, the fields that are derived from the basket
OrderRecord(i, channel, items) ==
    [order_id |-> FormatOrderId(i),
     channel |-> channel,
     sales |-> round2(SumSeq(ItemSales(items))),
     group_name |-> MaxGroup(GroupSales(items, <<>>))]

\* the order-item records of lines 324-343
ProductOrderRecords(i, items) ==
    [k \in 1..Len(items) |->
        [id |-> "POL" \o FormatOrderId(i) \o "-" \o ToString(k),
         order_id |-> FormatOrderId(i),
         product_id |-> items[k].product_id,
         product_name |-> items[k].product_name,
         product_category |-> items[k].product_category,
         base_name |-> items[k].base_name,
         size_ml |-> items[k].size_ml,
         quantity |-> items[k].quantity,
         item_sales |-> round2(items[k].item_sales)]]

\* lines 268-276: a new iteration draws the channel and enters pick_order_items
StartOrder ==
    /\ pc = "start"
    /\ index < MaxOrders
    /\ \E p \in Range(platforms) :
          /\ platform_weights[p] > 0
          /\ p \in ExploredChannels
          /\ platform' = p
    /\ order_items' = <<>>
    /\ total_qty' = 0
    /\ continuation_prob' = 9
    /\ picked_items' = <<>>
    /\ orders' = <<>>
    /\ product_orders' = <<>>
    /\ pc' = "pick"
    /\ UNCHANGED <<index, ORDERS_DF, ORDER_ITEMS_DF, dash_in, dash_out>>
    /\ UNCHANGED <<draw, rerun, controls>>

\* PickItem with continuation_prob left at 0.9
PickItem_no_decay ==
    /\ pc = "pick"
    /\ total_qty < QtyCap
    /\ \E g \in Range(group_names) : \E k \in 1..Len(products_by_group[g]) :
          LET product == products_by_group[g][k] IN
          /\ group_weights[g] > 0
          /\ product.product_name \in ExploredNames
          /\ HasKey(order_items, product.product_id) \/ Len(order_items) < MaxDistinct
          /\ order_items' = add_order_item(order_items, product, 1)
          /\ total_qty' = total_qty + 1
          /\ \E r \in {0, 9} :
                IF total_qty + 1 >= QtyCap \/ r >= continuation_prob
                THEN /\ pc' = "picked"
                     /\ picked_items' = order_items'
                     /\ UNCHANGED continuation_prob
                ELSE /\ pc' = "pick"
                     /\ UNCHANGED continuation_prob
                     /\ UNCHANGED picked_items
    /\ UNCHANGED <<index, platform, orders, product_orders, ORDERS_DF, ORDER_ITEMS_DF,
                   dash_in, dash_out>>
    /\ UNCHANGED <<draw, rerun, controls>>

\* one iteration of the while loop of pick_order_items; r is the tenth that
\* random.random() falls into: the lowest tenth continues whenever a tenth
\* does, the highest stops whenever a tenth does
PickItem ==
    /\ pc = "pick"
    /\ total_qty < QtyCap
    /\ \E g \in Range(group_names) : \E k \in 1..Len(products_by_group[g]) :
          LET product == products_by_group[g][k] IN
          /\ group_weights[g] > 0
          /\ product.product_name \in ExploredNames
          /\ HasKey(order_items, product.product_id) \/ Len(order_items) < MaxDistinct
          /\ order_items' = add_order_item(order_items, product, 1)
          /\ total_qty' = total_qty + 1
          /\ \E r \in {0, 9} :
                IF total_qty + 1 >= QtyCap \/ r >= continuation_prob
                THEN /\ pc' = "picked"
                     /\ picked_items' = order_items'
                     /\ UNCHANGED continuation_prob
                ELSE /\ pc' = "pick"
                     /\ continuation_prob' = Max(0, continuation_prob - 1)
                     /\ UNCHANGED picked_items
    /\ UNCHANGED <<index, platform, orders, product_orders, ORDERS_DF, ORDER_ITEMS_DF,
                   dash_in, dash_out>>
    /\ UNCHANGED <<draw, rerun, controls>>

\* line 277
ApplyDuoConversion ==
    /\ pc = "picked"
    /\ \E chosen \in ShuffledPrefixes(EligibleIds(order_items), Pairs(order_items, platform)) :
          order_items' = apply_duo_conversion(order_items, platform, chosen)
    /\ pc' = "converted"
    /\ UNCHANGED <<index, platform, total_qty, continuation_prob, picked_items,
                   orders, product_orders, ORDERS_DF, ORDER_ITEMS_DF, dash_in, dash_out>>
    /\ UNCHANGED <<draw, rerun, controls>>

\* lines 278-343, and the step to the next iteration
AppendRecords ==
    /\ pc = "converted"
    /\ orders' = <<OrderRecord(index, platform, order_items)>>
    /\ product_orders' = ProductOrderRecords(index, order_items)
    /\ index' = index + 1
    /\ pc' = "start"
    /\ UNCHANGED <<platform, order_items, total_qty, continuation_prob, picked_items,
                   ORDERS_DF, ORDER_ITEMS_DF, dash_in, dash_out>>
    /\ UNCHANGED <<draw, rerun, controls>>

-----------------------------------------------------------------------------
(* random.choices(population, weights=weights, k=1)[0] *)

\* what a call can come to: it raises ValueError("Total of weights must be
\* greater than zero") when the weights add up to nothing (CPython since
\* 3.9), else it returns a member whose weight is positive
choices(population, weights) ==
    IF SumSeq(weights) <= 0
    THEN {[raised |-> "ValueError", picked |-> ""]}
    ELSE {[raised |-> "", picked |-> population[i]] :
             i \in {j \in 1..Len(population) : weights[j] > 0}}

\* platform_weight_values and group_weight_values (lines 171, 173)
platform_weight_values == [i \in 1..Len(platforms) |-> platform_weights[platforms[i]]]

group_weight_values == [i \in 1..Len(group_names) |-> group_weights[group_names[i]]]

\* the weight tables the draws are made with: each entry as the code has it
\* or zero
WeightTables(weight_values) ==
    {[i \in 1..Len(weight_values) |-> IF i \in zeroed THEN 0 ELSE weight_values[i]] :
        zeroed \in SUBSET (1..Len(weight_values))}

NoOutcome == [raised |-> "", picked |-> ""]

\* line 272: platform = random.choices(platforms, weights=platform_weight_values, k=1)[0]
DrawChannel ==
    /\ draw.population = platforms
    /\ draw.outcome = NoOutcome
    /\ \E outcome \in choices(platforms, draw.weights) :
          draw' = [draw EXCEPT !.outcome = outcome]
    /\ UNCHANGED synth_vars
    /\ UNCHANGED dash_vars
    /\ UNCHANGED <<rerun, controls>>

\* line 254: group = random.choices(group_names, weights=group_weight_values, k=1)[0]
DrawGroup ==
    /\ draw.population = group_names
    /\ draw.outcome = NoOutcome
    /\ \E outcome \in choices(group_names, draw.weights) :
          draw' = [draw EXCEPT !.outcome = outcome]
    /\ UNCHANGED synth_vars
    /\ UNCHANGED dash_vars
    /\ UNCHANGED <<rerun, controls>>

-----------------------------------------------------------------------------
(* make_mock_data, run by every start of the process after random.seed(7) *)

\* What the generator hands to one iteration of the order loop. The seed
\* fixes the stream; which stream it is, is left open. Per order: the values
\* of randint(0, 180), randint(8, 21) and randint(0, 3), the channel, the
\* customer status, the products pick_order_items draws.
OrderDraws ==
    {[day_offset |-> d[1], hour |-> d[2], ship_days |-> d[3], platform |-> c,
      customer_status |-> "New", picks |-> ps] :
        d \in {<<0, 8, 0>>, <<180, 21, 3>>},
        c \in {"Shopee", "LineOA"},
        ps \in {<<"Original 1L", "Lamoon cup">>, <<"umiro", "On the rock 500ml">>}}

\* the streams of order_count orders
Streams(order_count) == [1..order_count -> OrderDraws]

\* the basket pick_order_items returns when it draws the products named picks
RECURSIVE PickedBasket(_, _)
PickedBasket(items, picks) ==
    IF picks = <<>> THEN items
    ELSE PickedBasket(add_order_item(items, ByName(Catalog, Head(picks)), 1), Tail(picks))

\* lines 43 and 268-343 for the order of index i: the order record with its
\* dates, and its order-item records
SynthesizedOrder(i, today, d) ==
    LET base_date == today - 180
        order_date == base_date + d.day_offset
        picked == PickedBasket(<<>>, d.picks)
        \* the shuffle the stream fixes is taken to leave eligible_ids in order
        items == apply_duo_conversion(picked, d.platform, EligibleIds(picked))
    IN  [order |-> [f \in DOMAIN OrderRecord(i, d.platform, items)
                          \cup {"time_stamp", "shipdate", "customer_status"} |->
                       IF f = "time_stamp" THEN <<order_date, d.hour>>
                       ELSE IF f = "shipdate" THEN order_date + d.ship_days
                       ELSE IF f = "customer_status" THEN d.customer_status
                       ELSE OrderRecord(i, d.platform, items)[f]],
         product_orders |-> ProductOrderRecords(i, items)]

\* make_mock_data() on the day today with the stream the seed fixes
make_mock_data(stream, today) ==
    [i \in 1..Len(stream) |-> SynthesizedOrder(i - 1, today, stream[i])]

\* a start of the process: lines 10 and 356
StartProcess ==
    /\ Len(rerun.record_sets) < 2
    /\ rerun' = [rerun EXCEPT !.record_sets =
                    Append(@, make_mock_data(rerun.stream, rerun.today))]
    /\ UNCHANGED synth_vars
    /\ UNCHANGED dash_vars
    /\ UNCHANGED <<draw, controls>>

\* midnight passes: dt.date.today() returns the next day from now on
Midnight ==
    /\ rerun.midnights < MaxMidnights
    /\ rerun' = [rerun EXCEPT !.today = @ + 1, !.midnights = @ + 1]
    /\ UNCHANGED synth_vars
    /\ UNCHANGED dash_vars
    /\ UNCHANGED <<draw, controls>>

-----------------------------------------------------------------------------
(* Dates: a date is its proleptic Gregorian ordinal, as date.toordinal() *)

IsLeap(y) == y % 4 = 0 /\ (y % 100 # 0 \/ y % 400 = 0)

DaysInMonth(y, m) ==
    IF m = 2 THEN (IF IsLeap(y) THEN 29 ELSE 28)
    ELSE IF m \in {4, 6, 9, 11} THEN 30 ELSE 31

DaysBeforeYear(y) ==
    (y - 1) * 365 + (y - 1) \div 4 - (y - 1) \div 100 + (y - 1) \div 400

RECURSIVE DaysBeforeMonth(_, _)
DaysBeforeMonth(y, m) ==
    IF m = 1 THEN 0 ELSE DaysBeforeMonth(y, m - 1) + DaysInMonth(y, m - 1)

\* dt.date(y, m, d)
Date(y, m, d) == DaysBeforeYear(y) + DaysBeforeMonth(y, m) + d

\* the years the explored dates lie in
Years == 2025..2026

\* the calendar of those years: the year, month and day of every date
Calendar ==
    [n \in (DaysBeforeYear(2025) + 1)..DaysBeforeYear(2027) |->
        LET y == CHOOSE y \in Years : DaysBeforeYear(y) < n /\ n <= DaysBeforeYear(y + 1)
            m == CHOOSE m \in 1..12 :
                    /\ Date(y, m, 1) <= n
                    /\ n < Date(y, m, 1) + DaysInMonth(y, m)
        IN  [year |-> y, month |-> m, day |-> n - Date(y, m, 1) + 1]]

\* .year, .month and .day of a date
YearOf(n) == Calendar[n].year

MonthOf(n) == Calendar[n].month

DayOf(n) == Calendar[n].day

\* date.weekday() and Series.dt.dayofweek: Monday is 0
Weekday(n) == (n + 6) % 7

MONTH_ORDER ==
    <<"Jan", "Feb", "Mar", "Apr", "May", "Jun", "Jul", "Aug", "Sep", "Oct", "Nov", "Dec">>

MONTH_MAP == [m \in 1..12 |-> MONTH_ORDER[m]]

day_map == [d \in 0..6 |-> <<"Mon", "Tue", "Wed", "Thu", "Fri", "Sat", "Sun">>[d + 1]]

week_order == [i \in 1..7 |-> day_map[i - 1]]

\* strftime("%d %b %Y")
FormatDate(n) ==
    (IF DayOf(n) < 10 THEN "0" ELSE "") \o ToString(DayOf(n)) \o " "
        \o MONTH_MAP[MonthOf(n)] \o " " \o ToString(YearOf(n))

\* a date string of the date picker is modelled as <<year, month, day>>, the
\* value None as <<>>; pd.to_datetime(text).date()
ParseDate(text) == Date(text[1], text[2], text[3])

-----------------------------------------------------------------------------
(* The record sets the dashboard reads *)

\* Orders that make_mock_data can have produced within its 181 days: their
\* dates, channels and customer statuses, and the baskets after conversion
\* as <<product_name, quantity>>.
SampleOrders ==
    <<[order_id |-> "ORD10001", time_stamp |-> Date(2026, 3, 3), channel |-> "Shopee",
       customer_status |-> "New",
       items |-> <<(<<"Duo set Original 1L", 1>>), (<<"Original 200ml", 2>>)>>],
      [order_id |-> "ORD10002", time_stamp |-> Date(2026, 2, 10), channel |-> "LineOA",
       customer_status |-> "New",
       items |-> <<(<<"Original", 1>>), (<<"Lamoon cup", 1>>), (<<"Original 1L", 1>>)>>],
      [order_id |-> "ORD10003", time_stamp |-> Date(2026, 3, 4), channel |-> "Tiktok",
       customer_status |-> "Returning",
       items |-> <<(<<"On the rock 500ml", 1>>)>>],
      [order_id |-> "ORD10004", time_stamp |-> Date(2025, 12, 29), channel |-> "Shopee",
       customer_status |-> "Returning",
       items |-> <<(<<"Tumbler", 1>>), (<<"Milky 1L", 1>>), (<<"Dark", 2>>)>>]>>

\* orders_df: one row per order
OrdersFrame(sample) ==
    [k \in 1..Len(sample) |->
        [order_id |-> sample[k].order_id,
         time_stamp |-> sample[k].time_stamp,
         channel |-> sample[k].channel,
         customer_status |-> sample[k].customer_status]]

\* the rows of one order in merged_df: the order-item record of each basket
\* entry with the columns of its order
MergedRowsOf(order) ==
    [k \in 1..Len(order.items) |->
        LET product == ByName(Catalog, order.items[k][1])
        IN  [order_id |-> order.order_id,
             product_name |-> product.product_name,
             product_category |-> product.product_category,
             base_name |-> product.base_name,
             size_ml |-> product.size_ml,
             quantity |-> order.items[k][2],
             item_sales |-> round2(product.price * order.items[k][2]),
             time_stamp |-> order.time_stamp,
             channel |-> order.channel,
             customer_status |-> order.customer_status]]

\* merged_df = products_df.merge(orders_df, on="order_id", how="left")
RECURSIVE MergedFrame(_)
MergedFrame(sample) ==
    IF sample = <<>> THEN <<>>
    ELSE MergedRowsOf(Head(sample)) \o MergedFrame(Tail(sample))

-----------------------------------------------------------------------------
(* Frames: a DataFrame is the sequence of its rows *)

\* df[df[column].isin(values)] on the channel and on the category
WhereChannelIn(df, values) == SelectSeq(df, LAMBDA r : r.channel \in Range(values))

WhereCategoryIn(df, values) == SelectSeq(df, LAMBDA r : r.product_category \in Range(values))

apply_date_filter(df, start_date, end_date) ==
    SelectSeq(df, LAMBDA r : r.time_stamp >= start_date /\ r.time_stamp <= end_date)

\* df["item_sales"].sum() and df["quantity"].sum()
SalesSum(df) == SumSeq([k \in 1..Len(df) |-> df[k].item_sales])

QuantitySum(df) == SumSeq([k \in 1..Len(df) |-> df[k].quantity])

\* df["order_id"].nunique()
OrderCount(df) == Cardinality({df[k].order_id : k \in 1..Len(df)})

\* df.drop_duplicates("order_id"): the first row of every order
FirstRowPerOrder(df) ==
    LET firsts == {k \in 1..Len(df) : \A j \in 1..(k - 1) : df[j].order_id # df[k].order_id}
    IN  SelectSeq([k \in 1..Len(df) |-> [row |-> df[k], first |-> k \in firsts]],
                  LAMBDA x : x.first)

\* the smallest and the largest time_stamp of a frame
MinDate(df) == CHOOSE d \in {df[k].time_stamp : k \in 1..Len(df)} :
                  \A k \in 1..Len(df) : d <= df[k].time_stamp

MaxDate(df) == CHOOSE d \in {df[k].time_stamp : k \in 1..Len(df)} :
                  \A k \in 1..Len(df) : d >= df[k].time_stamp

\* the members of a set of integers in ascending order
RECURSIVE SortedSeq(_)
SortedSeq(S) ==
    IF S = {} THEN <<>>
    ELSE LET lo == CHOOSE x \in S : \A y \in S : x <= y
         IN  <<lo>> \o SortedSeq(S \ {lo})

\* a cell of a frame: <<v>> holds the number v, <<>> is NaN
NaN == <<>>

Cell(v) == <<v>>

-----------------------------------------------------------------------------
(* refresh_dashboard *)

\* build_blank_figure(): a figure without a trace
BlankFigure == [blank |-> TRUE, data |-> <<>>]

\* a figure drawn from the rows of a frame
Figure(rows) == [blank |-> FALSE, data |-> rows]

\* a KPI card: the text "N/A", or a text formatted from numbers
KpiNA == [na |-> TRUE, num |-> 0, den |-> 1]

Kpi(num, den) == [na |-> FALSE, num |-> num, den |-> den]

\* a frame with a column added or overwritten by df[column] = values
WithColumn(df, column, values) ==
    [k \in 1..Len(df) |->
        [f \in DOMAIN df[k] \cup {column} |-> IF f = column THEN values[k] ELSE df[k][f]]]

\* the two returns of lines 976-996 and 1001-1021
NoDataResult ==
    [kpi_sales |-> KpiNA, kpi_orders |-> KpiNA, kpi_aov |-> KpiNA, kpi_new |-> KpiNA,
     fig_sales |-> BlankFigure, fig_platform |-> BlankFigure, fig_group |-> BlankFigure,
     fig_customer |-> BlankFigure, fig_top_products |-> BlankFigure,
     fig_customer_monthly |-> BlankFigure, fig_product_sales |-> BlankFigure,
     fig_product_qty |-> BlankFigure, fig_product_monthly |-> BlankFigure]

\* available_years and default_year (lines 393-394); no order is later than
\* the day the data was built, so that day's year is an available year only if
\* it is the largest one
available_years(orders_df) ==
    SortedSeq({YearOf(orders_df[k].time_stamp) : k \in 1..Len(orders_df)})

default_year(orders_df) ==
    available_years(orders_df)[Len(available_years(orders_df))]

\* available_platforms (line 388), the channels in sorted order
available_platforms(orders_df) ==
    SelectSeq(<<"Facebook", "Lazada", "LineOA", "LineShopping", "Shopee", "Tiktok">>,
              LAMBDA c : \E k \in 1..Len(orders_df) : orders_df[k].channel = c)

\* lines 958-969: <<start, end>>
DateWindow(period, start_date, end_date, selected_year, week_offset, orders_df) ==
    IF period = "monthly"
    THEN LET year == IF selected_year # 0 THEN selected_year ELSE default_year(orders_df)
         IN  <<Date(year, 1, 1), Date(year, 12, 31)>>
    ELSE IF period = "daily"
    THEN LET latest == MaxDate(orders_df)
             start == (latest - Weekday(latest)) - 7 * week_offset
         IN  <<start, start + 6>>
    ELSE <<IF start_date # <<>> THEN ParseDate(start_date) ELSE MinDate(orders_df),
           IF end_date # <<>> THEN ParseDate(end_date) ELSE MaxDate(orders_df)>>

\* months = selected_months or MONTH_ORDER
ChosenMonths(selected_months) ==
    IF selected_months # <<>> THEN selected_months ELSE MONTH_ORDER

\* lines 1029-1034
ItemsForCharts(items_base, period, window, selected_months) ==
    LET dated == apply_date_filter(items_base, window[1], window[2])
    IN  IF period = "monthly"
        THEN SelectSeq(dated, LAMBDA r : MONTH_MAP[MonthOf(r.time_stamp)]
                                            \in Range(ChosenMonths(selected_months)))
        ELSE dated

\* ProductRollup without the prefix of the Coffee Bean rows
ProductRollup_no_prefix(r) == IF r.size_ml # NoSize THEN r.base_name ELSE r.product_name

\* lines 1037-1046: the product_rollup column of a row
ProductRollup(r) ==
    LET key == IF r.size_ml # NoSize THEN r.base_name ELSE r.product_name
    IN  IF r.product_category = "Coffee Bean" /\ key \in {"Original", "Dark", "Fruity", "Milky"}
        THEN "Coffee Bean " \o key
        ELSE key

\* lines 1023-1027
LastMonthItems(items_base, orders_df) ==
    LET reference_date == MaxDate(orders_df)
        first_of_current_month == Date(YearOf(reference_date), MonthOf(reference_date), 1)
        last_month_end == first_of_current_month - 1
        last_month_start == Date(YearOf(last_month_end), MonthOf(last_month_end), 1)
    IN  apply_date_filter(items_base, last_month_start, last_month_end)

\* the sum over the (year, month) keys ms of sales/orders, as a fraction
\* <<numerator, denominator>>
RECURSIVE RatioSum(_, _)
RatioSum(df, ms) ==
    IF ms = <<>> THEN <<0, 1>>
    ELSE LET rows == SelectSeq(df, LAMBDA r : YearOf(r.time_stamp) * 12 + MonthOf(r.time_stamp)
                                                  = Head(ms))
             rest == RatioSum(df, Tail(ms))
         IN  <<SalesSum(rows) * rest[2] + rest[1] * OrderCount(rows),
               OrderCount(rows) * rest[2]>>

\* MonthlyAov as one ratio over the whole filtered period
MonthlyAov_range_wide(items_for_charts) ==
    IF items_for_charts = <<>> THEN <<0, 1>>
    ELSE <<SalesSum(items_for_charts), OrderCount(items_for_charts)>>

\* lines 1051-1064: aov, the mean of the monthly sales/orders ratios, as a
\* fraction; 0 when there is no month
MonthlyAov(items_for_charts) ==
    LET ms == SortedSeq({YearOf(items_for_charts[k].time_stamp) * 12
                            + MonthOf(items_for_charts[k].time_stamp) :
                         k \in 1..Len(items_for_charts)})
    IN  IF ms = <<>> THEN <<0, 1>>
        ELSE <<RatioSum(items_for_charts, ms)[1], RatioSum(items_for_charts, ms)[2] * Len(ms)>>

\* NewShare without the test of total_orders: the division is made whatever
\* the divisor
NewShare_unguarded(new_customers, total_orders) ==
    <<new_customers * 100, total_orders>>

\* line 1068: new_share as a fraction <<numerator, denominator>>; a
\* denominator of 0 is the ZeroDivisionError of new_customers / total_orders
NewShare(new_customers, total_orders) ==
    IF total_orders # 0 THEN <<new_customers * 100, total_orders>> ELSE <<0, 1>>

\* the card of line 1073: the count of new customers, and their share
KpiNew(new_customers, total_orders) ==
    [na |-> FALSE, num |-> new_customers, den |-> 1,
     share |-> NewShare(new_customers, total_orders)]

\* lines 1084-1088
MonthOrderUsed(period, selected_months) ==
    IF period = "monthly"
    THEN SelectSeq(MONTH_ORDER, LAMBDA m : m \in Range(ChosenMonths(selected_months)))
    ELSE MONTH_ORDER

\* the period_label column (lines 1094-1109)
PeriodLabel(period, time_stamp) ==
    IF period = "monthly" THEN MONTH_MAP[MonthOf(time_stamp)]
    ELSE IF period = "daily" THEN day_map[Weekday(time_stamp)]
    ELSE FormatDate(time_stamp)

\* x_order (lines 1098, 1103, 1110-1114)
XOrder(period, selected_months, items_for_charts) ==
    IF period = "monthly" THEN MonthOrderUsed(period, selected_months)
    ELSE IF period = "daily" THEN week_order
    ELSE LET dates == SortedSeq({items_for_charts[k].time_stamp :
                                    k \in 1..Len(items_for_charts)})
         IN  [i \in 1..Len(dates) |-> FormatDate(dates[i])]

\* lines 1116-1118: the sums per period label, then
\* sales_trend.set_index("period_label").reindex(x_order).reset_index(): one
\* row per label of x_order, NaN where the grouped frame has no such label
SalesTrend(period, x_order, items_for_charts) ==
    [i \in 1..Len(x_order) |->
        LET rows == SelectSeq(items_for_charts,
                              LAMBDA r : PeriodLabel(period, r.time_stamp) = x_order[i])
        IN  [period_label |-> x_order[i],
             item_sales |-> IF rows = <<>> THEN NaN ELSE Cell(SalesSum(rows))]]

\* groupby(column)["item_sales"].sum(): a row for every key that occurs; the
\* rows are listed in the order of keys, sort_values is not applied
PlatformSales(items_for_charts) ==
    LET keys == SelectSeq(<<"Facebook", "Lazada", "LineOA", "LineShopping", "Shopee", "Tiktok">>,
                          LAMBDA c : \E k \in 1..Len(items_for_charts) :
                                        items_for_charts[k].channel = c)
    IN  [i \in 1..Len(keys) |->
            [channel |-> keys[i],
             item_sales |-> SalesSum(SelectSeq(items_for_charts,
                                               LAMBDA r : r.channel = keys[i]))]]

GroupSalesFrame(items_for_charts) ==
    LET keys == SelectSeq(PRODUCT_GROUPS,
                          LAMBDA g : \E k \in 1..Len(items_for_charts) :
                                        items_for_charts[k].product_category = g)
    IN  [i \in 1..Len(keys) |->
            [product_category |-> keys[i],
             item_sales |-> SalesSum(SelectSeq(items_for_charts,
                                               LAMBDA r : r.product_category = keys[i]))]]

\* lines 1181-1190: orders per period label and customer status, the pairs
\* that occur, in the order of x_order
CustomerMix(period, x_order, orders_for_charts) ==
    LET pairs == [i \in 1..(2 * Len(x_order)) |->
                    [period_label |-> x_order[(i + 1) \div 2],
                     customer_status |-> IF i % 2 = 1 THEN "New" ELSE "Returning"]]
        counted == [i \in 1..Len(pairs) |->
                      [period_label |-> pairs[i].period_label,
                       customer_status |-> pairs[i].customer_status,
                       orders |-> Len(SelectSeq(orders_for_charts,
                                     LAMBDA r : /\ PeriodLabel(period, r.time_stamp)
                                                     = pairs[i].period_label
                                                /\ r.customer_status
                                                     = pairs[i].customer_status))]]
    IN  SelectSeq(counted, LAMBDA c : c.orders > 0)

\* MonthlyCustomer without the reindex: only the pairs that have orders
MonthlyCustomer_sparse(month_order_used, orders_for_charts) ==
    LET pairs == [i \in 1..(2 * Len(month_order_used)) |->
                    [month_label |-> month_order_used[(i + 1) \div 2],
                     customer_status |-> IF i % 2 = 1 THEN "New" ELSE "Returning"]]
        counted == [i \in 1..Len(pairs) |->
                      [month_label |-> pairs[i].month_label,
                       customer_status |-> pairs[i].customer_status,
                       orders |-> Len(SelectSeq(orders_for_charts,
                                     LAMBDA r : /\ MONTH_MAP[MonthOf(r.time_stamp)]
                                                     = pairs[i].month_label
                                                /\ r.customer_status
                                                     = pairs[i].customer_status))]]
    IN  SelectSeq(counted, LAMBDA c : c.orders > 0)

\* lines 1204-1218: reindexed on month_order_used x [New, Returning], fill 0
MonthlyCustomer(month_order_used, orders_for_charts) ==
    [i \in 1..(2 * Len(month_order_used)) |->
        LET month_label == month_order_used[(i + 1) \div 2]
            status == IF i % 2 = 1 THEN "New" ELSE "Returning"
        IN  [month_label |-> month_label,
             customer_status |-> status,
             orders |-> Len(SelectSeq(orders_for_charts,
                           LAMBDA r : /\ MONTH_MAP[MonthOf(r.time_stamp)] = month_label
                                      /\ r.customer_status = status))]]

\* the product_rollup keys of the catalog in the order groupby sorts them:
\* by code point, capitals before small letters
GroupbyKeyOrder ==
    <<"Coffee Bean Dark", "Coffee Bean Fruity", "Coffee Bean Milky", "Coffee Bean Original",
      "Coffee Drip D", "Coffee Drip M", "Coffee Drip MD", "Coffee Drip ML", "Dark Edition",
      "Duo set Dark", "Duo set Fruity", "Duo set Milky", "Duo set Original", "Fruity Delight",
      "Itim Kati", "Lamoon cup", "Milky", "Mini Crosaint", "Monday Morning", "Namwhan",
      "Natural wonder", "On the rock", "Original", "Peachful", "Saen Chai", "Small Set",
      "Tumbler", "Vanilla Sundae", "asumi", "haruno", "rinro", "umiro">>

\* the keys of a set in groupby's order
SortedKeys(occurring) == SelectSeq(GroupbyKeyOrder, LAMBDA key : key \in occurring)

\* groupby("product_rollup", as_index=False): the keys that occur, sorted
RollupKeys(items_for_charts) ==
    SortedKeys({ProductRollup(items_for_charts[k]) : k \in 1..Len(items_for_charts)})

\* the sum of a column over the rows of every key
RollupSums(items_for_charts, keys, column) ==
    [i \in 1..Len(keys) |->
        [product_rollup |-> keys[i],
         value |-> SumSeq([k \in 1..Len(items_for_charts) |->
                             IF ProductRollup(items_for_charts[k]) = keys[i]
                             THEN items_for_charts[k][column] ELSE 0])]]

\* items_for_charts.groupby("product_rollup", as_index=False)[column].sum():
\* rows of the key and the sum, which is kept under the name value
ProductRollups(items_for_charts, column) ==
    RollupSums(items_for_charts, RollupKeys(items_for_charts), column)

\* df.sort_values("value", ascending=False): the largest value first. Rows of
\* equal value are listed in the order they have in df; where numpy's sort
\* leaves them depends on the build, and the figures order their bars by total
\* (categoryorder="total ascending").
RECURSIVE sort_values_descending(_)
sort_values_descending(df) ==
    IF df = <<>> THEN <<>>
    ELSE LET top == CHOOSE i \in 1..Len(df) :
                        /\ \A j \in 1..Len(df) : df[j].value <= df[i].value
                        /\ \A j \in 1..(i - 1) : df[j].value < df[i].value
         IN  <<df[top]>> \o sort_values_descending(SubSeq(df, 1, top - 1) \o
                                                    SubSeq(df, top + 1, Len(df)))

\* df.head(n)
head(df, n) == SubSeq(df, 1, Min(n, Len(df)))

\* top_products (lines 1231-1236), product_sales (lines 1248-1252) and
\* product_qty (lines 1264-1268): the n largest sums of a column per
\* product_rollup
TopProducts(items_for_charts, column, n) ==
    head(sort_values_descending(ProductRollups(items_for_charts, column)), n)

\* lines 1280-1284: item_sales per month label and category, the pairs that
\* occur
MonthlyProduct(items_for_charts) ==
    LET pairs == [i \in 1..(12 * Len(PRODUCT_GROUPS)) |->
                    [month_label |-> MONTH_ORDER[((i - 1) \div Len(PRODUCT_GROUPS)) + 1],
                     product_category |-> PRODUCT_GROUPS[((i - 1) % Len(PRODUCT_GROUPS)) + 1]]]
        RowsAt(i) == SelectSeq(items_for_charts,
                        LAMBDA r : /\ MONTH_MAP[MonthOf(r.time_stamp)] = pairs[i].month_label
                                   /\ r.product_category = pairs[i].product_category)
        occurring == SelectSeq([i \in 1..Len(pairs) |-> i], LAMBDA i : RowsAt(i) # <<>>)
    IN  [j \in 1..Len(occurring) |->
            [month_label |-> pairs[occurring[j]].month_label,
             product_category |-> pairs[occurring[j]].product_category,
             item_sales |-> SalesSum(RowsAt(occurring[j]))]]

\* orders_for_charts (lines 1090-1092)
OrdersForCharts(items_for_charts) ==
    LET first_rows == FirstRowPerOrder(items_for_charts)
    IN  [k \in 1..Len(first_rows) |-> first_rows[k].row]

\* lines 1048-1354: the KPI cards and the figures, from the frames they are
\* computed from
DashboardResult(period, selected_months, last_month_items, items_for_charts, orders_for_charts, x_order) ==
    [kpi_sales |-> Kpi(SalesSum(last_month_items), 1),
     kpi_orders |-> Kpi(OrderCount(last_month_items), 1),
     kpi_aov |-> Kpi(MonthlyAov(items_for_charts)[1], MonthlyAov(items_for_charts)[2]),
     \* f"{new_customers:,} ({new_share:.0f}%)"
     kpi_new |-> KpiNew(OrderCount(SelectSeq(last_month_items,
                                             LAMBDA r : r.customer_status = "New")),
                        OrderCount(last_month_items)),
     fig_sales |-> Figure(SalesTrend(period, x_order, items_for_charts)),
     fig_platform |-> Figure(PlatformSales(items_for_charts)),
     fig_group |-> Figure(GroupSalesFrame(items_for_charts)),
     fig_customer |-> Figure(CustomerMix(period, x_order, orders_for_charts)),
     fig_top_products |-> Figure(TopProducts(items_for_charts, "item_sales", 5)),
     fig_customer_monthly |->
        Figure(MonthlyCustomer(MonthOrderUsed(period, selected_months), orders_for_charts)),
     fig_product_sales |-> Figure(TopProducts(items_for_charts, "item_sales", 8)),
     fig_product_qty |-> Figure(TopProducts(items_for_charts, "quantity", 8)),
     fig_product_monthly |-> Figure(MonthlyProduct(items_for_charts))]

\* lines 1029-1118: the frames of the charts, then the result
ChartsResult(period, selected_months, last_month_items, items_for_charts) ==
    DashboardResult(period, selected_months, last_month_items, items_for_charts,
                    OrdersForCharts(items_for_charts),
                    XOrder(period, selected_months, items_for_charts))

\* BaseResult with the KPI cards computed over the rows of the charts
BaseResult_kpis_in_window(period, window, selected_months, items_base, orders_df) ==
    IF items_base = <<>> THEN NoDataResult
    ELSE ChartsResult(period, selected_months,
                      ItemsForCharts(items_base, period, window, selected_months),
                      ItemsForCharts(items_base, period, window, selected_months))

\* lines 1001-1029: no row of the selected channels and categories gives the
\* "N/A" result
BaseResult(period, window, selected_months, items_base, orders_df) ==
    IF items_base = <<>> THEN NoDataResult
    ELSE ChartsResult(period, selected_months, LastMonthItems(items_base, orders_df),
                      ItemsForCharts(items_base, period, window, selected_months))

\* refresh_dashboard with an empty selection read as every option
refresh_dashboard_empty_as_all(in, orders_df, items_df) ==
    BaseResult(in.period,
               DateWindow(in.period, in.start_date, in.end_date, in.selected_year,
                          in.week_offset, orders_df),
               in.selected_months,
               WhereCategoryIn(
                  WhereChannelIn(items_df, IF in.platforms = <<>>
                                           THEN available_platforms(orders_df)
                                           ELSE in.platforms),
                  IF in.groups = <<>> THEN PRODUCT_GROUPS ELSE in.groups),
               orders_df)

\* refresh_dashboard(period, start_date, ..., groups, theme_value); None and
\* [] are both <<>>; the theme only colours the figures and is left out
refresh_dashboard(in, orders_df, items_df) ==
    IF in.platforms = <<>> \/ in.groups = <<>> THEN NoDataResult
    ELSE BaseResult(in.period,
                    DateWindow(in.period, in.start_date, in.end_date, in.selected_year,
                               in.week_offset, orders_df),
                    in.selected_months,
                    WhereCategoryIn(WhereChannelIn(items_df, in.platforms), in.groups),
                    orders_df)

\* RecordSetsAfter with the product_rollup column of lines 1037-1046
\* assigned to ORDER_ITEMS_DF itself, as it is when the frame it is assigned
\* to is not a copy
RecordSetsAfter_rollup_in_place(in, orders_df, items_df) ==
    <<orders_df,
      IF in.platforms = <<>> \/ in.groups = <<>> THEN items_df
      ELSE WithColumn(items_df, "product_rollup",
                      [k \in 1..Len(items_df) |-> ProductRollup(items_df[k])])>>

\* <<ORDERS_DF, ORDER_ITEMS_DF>> as a call of refresh_dashboard leaves them.
\* The call assigns columns (product_rollup, year, month, period_label,
\* period_date, month_label) only to frames that boolean indexing (lines
\* 998-999, 1032), apply_date_filter's df.loc[mask].copy() or .copy() (lines
\* 1036, 1051, 1092, 1204, 1280) made: new objects, never the two globals.
RecordSetsAfter(in, orders_df, items_df) == <<orders_df, items_df>>

-----------------------------------------------------------------------------
(* The dashboard's inputs *)

\* the values of the layout (lines 454-562)
LayoutInputs(orders_df) ==
    [period |-> "daily",
     start_date |-> LET d == MaxDate(orders_df) - 14 IN <<YearOf(d), MonthOf(d), DayOf(d)>>,
     end_date |-> LET d == MaxDate(orders_df) IN <<YearOf(d), MonthOf(d), DayOf(d)>>,
     selected_year |-> default_year(orders_df),
     week_offset |-> 0,
     selected_months |-> MONTH_ORDER,
     platforms |-> available_platforms(orders_df),
     groups |-> PRODUCT_GROUPS]

\* the selections the exploration makes in the two checklists, the month
\* checklist, the year dropdown and the date picker
PlatformChoices == {<<>>, <<"Facebook">>}

GroupChoices == {<<>>, <<"Cold brew", "Others", "Coffee Bean">>}

MonthChoices == {<<>>, <<"Mar", "Dec">>}

DateRangeChoices == {<<(<<>>), (<<>>)>>, <<(<<2026, 2, 20>>), (<<2026, 3, 3>>)>>}

\* the callback runs on the changed inputs
Refresh(in) ==
    /\ dash_in' = in
    /\ dash_out' = refresh_dashboard(in, ORDERS_DF, ORDER_ITEMS_DF)
    /\ ORDERS_DF' = RecordSetsAfter(in, ORDERS_DF, ORDER_ITEMS_DF)[1]
    /\ ORDER_ITEMS_DF' = RecordSetsAfter(in, ORDERS_DF, ORDER_ITEMS_DF)[2]
    /\ UNCHANGED synth_vars
    /\ UNCHANGED <<draw, rerun, controls>>

ChangePeriod ==
    \E p \in {"daily", "monthly", "custom"} : Refresh([dash_in EXCEPT !.period = p])

ChangeWeekOffset ==
    \E w \in 0..MaxWeekOffset : Refresh([dash_in EXCEPT !.week_offset = w])

ChangeDateRange ==
    \E range \in DateRangeChoices :
        Refresh([dash_in EXCEPT !.start_date = range[1], !.end_date = range[2]])

ChangeYear ==
    \E y \in {0} \cup Range(available_years(ORDERS_DF)) :
        Refresh([dash_in EXCEPT !.selected_year = y])

ChangeMonths ==
    \E ms \in MonthChoices \cup {MONTH_ORDER} : Refresh([dash_in EXCEPT !.selected_months = ms])

ChangePlatforms ==
    \E ps \in PlatformChoices \cup {available_platforms(ORDERS_DF)} :
        Refresh([dash_in EXCEPT !.platforms = ps])

ChangeGroups ==
    \E gs \in GroupChoices \cup {PRODUCT_GROUPS} : Refresh([dash_in EXCEPT !.groups = gs])

-----------------------------------------------------------------------------
(* The controls of the page: week navigation, date controls, "Select all" *)

\* date.isoformat(), as the date picker holds it
isoformat(n) == <<YearOf(n), MonthOf(n), DayOf(n)>>

\* available_groups = PRODUCT_GROUPS (line 389)
available_groups == PRODUCT_GROUPS

\* update_week_offset that lets the offset fall below 0
update_week_offset_no_floor(period_value, current_offset, triggered) ==
    IF period_value # "daily" THEN 0
    ELSE IF triggered = "week-prev" THEN current_offset + 1
    ELSE IF triggered = "week-next" THEN current_offset - 1
    ELSE 0

\* update_week_offset that keeps the offset unless Prev or Next was clicked
update_week_offset_kept(period_value, current_offset, triggered) ==
    IF triggered = "week-prev" THEN current_offset + 1
    ELSE IF triggered = "week-next" THEN Max(0, current_offset - 1)
    ELSE current_offset

\* update_week_offset(prev_clicks, next_clicks, period_value, current_offset)
\* with the component that callback_context names as the trigger; the two
\* click counts are not read. current_offset is never None: the Store starts
\* at 0 and this callback alone writes it.
update_week_offset(period_value, current_offset, triggered) ==
    IF period_value # "daily" THEN 0
    ELSE IF triggered = "week-prev" THEN current_offset + 1
    ELSE IF triggered = "week-next" THEN Max(0, current_offset - 1)
    ELSE 0

\* the Monday of the week of max_date
latest_start(orders_df) == MaxDate(orders_df) - Weekday(MaxDate(orders_df))

\* toggle_date_controls(period_value, week_offset, current_start,
\* current_end): the seven outputs
toggle_date_controls(period_value, week_offset, current_start, current_end, orders_df) ==
    LET offset_start == latest_start(orders_df) - 7 * week_offset
        offset_end == offset_start + 6
    IN  IF period_value = "monthly"
        THEN [date_range_wrapper |-> "none", year_range_wrapper |-> "block",
              title |-> "Year & Month", disabled |-> TRUE,
              start_date |-> current_start, end_date |-> current_end, week_nav |-> "none"]
        ELSE IF period_value = "daily"
        THEN [date_range_wrapper |-> "block", year_range_wrapper |-> "none",
              title |-> "Latest Week", disabled |-> TRUE,
              start_date |-> isoformat(offset_start), end_date |-> isoformat(offset_end),
              week_nav |-> "flex"]
        ELSE [date_range_wrapper |-> "block", year_range_wrapper |-> "none",
              title |-> "Date Range", disabled |-> FALSE,
              start_date |-> IF current_start # <<>> THEN current_start
                             ELSE isoformat(MinDate(orders_df)),
              end_date |-> IF current_end # <<>> THEN current_end
                           ELSE isoformat(MaxDate(orders_df)),
              week_nav |-> "none"]

\* sync_platform_selection that compares the lists, not the sets
sync_platform_selection_as_lists(select_all_value, selected_platforms, triggered, orders_df) ==
    IF triggered = "platform-select-all"
    THEN IF "all" \in Range(select_all_value)
         THEN [filter |-> available_platforms(orders_df), select_all |-> <<"all">>]
         ELSE [filter |-> <<>>, select_all |-> <<>>]
    ELSE [filter |-> selected_platforms,
          select_all |-> IF selected_platforms = available_platforms(orders_df)
                         THEN <<"all">> ELSE <<>>]

\* sync_platform_selection(select_all_value, selected_platforms) with the
\* component that callback_context names as the trigger; None and [] are
\* both <<>>
sync_platform_selection(select_all_value, selected_platforms, triggered, orders_df) ==
    IF triggered = "platform-select-all"
    THEN IF "all" \in Range(select_all_value)
         THEN [filter |-> available_platforms(orders_df), select_all |-> <<"all">>]
         ELSE [filter |-> <<>>, select_all |-> <<>>]
    ELSE [filter |-> selected_platforms,
          select_all |-> IF Range(selected_platforms) = Range(available_platforms(orders_df))
                         THEN <<"all">> ELSE <<>>]

\* sync_group_selection(select_all_value, selected_groups), likewise
sync_group_selection(select_all_value, selected_groups, triggered) ==
    IF triggered = "group-select-all"
    THEN IF "all" \in Range(select_all_value)
         THEN [filter |-> available_groups, select_all |-> <<"all">>]
         ELSE [filter |-> <<>>, select_all |-> <<>>]
    ELSE [filter |-> selected_groups,
          select_all |-> IF Range(selected_groups) = Range(available_groups)
                         THEN <<"all">> ELSE <<>>]

\* a click on one option of a checklist: the option leaves the value, or
\* joins it at the end
Toggled(value, option) ==
    IF option \in Range(value) THEN SelectSeq(value, LAMBDA o : o # option)
    ELSE Append(value, option)

\* the options of the group checklist that are clicked
ExploredGroups == {"Cold brew", "Others"}

\* no call yet
NoCall == [triggered |-> "none"]

\* the values of the layout (lines 401-562), before the callbacks of the page
\* load have run
LayoutControls(orders_df) ==
    [loaded |-> FALSE,
     period |-> "daily",
     week_offset |-> 0,
     week_call |-> NoCall,
     date_controls |-> [date_range_wrapper |-> "unset", year_range_wrapper |-> "none",
                        title |-> "Date Range", disabled |-> FALSE,
                        start_date |-> isoformat(MaxDate(orders_df) - 14),
                        end_date |-> isoformat(MaxDate(orders_df)),
                        week_nav |-> "unset"],
     platform_filter |-> available_platforms(orders_df),
     platform_select_all |-> <<"all">>,
     platform_call |-> NoCall,
     group_filter |-> available_groups,
     group_select_all |-> <<"all">>,
     group_call |-> NoCall]

\* update_week_offset runs on a trigger and writes the Store; the Store is an
\* input of toggle_date_controls, which Dash runs after it
WeekOffsetChain(c, period_value, triggered, orders_df) ==
    LET offset == update_week_offset(period_value, c.week_offset, triggered)
    IN  [c EXCEPT !.period = period_value,
                  !.week_offset = offset,
                  !.week_call = [triggered |-> triggered, period_value |-> period_value,
                                 current_offset |-> c.week_offset],
                  !.date_controls = toggle_date_controls(period_value, offset,
                                                         c.date_controls.start_date,
                                                         c.date_controls.end_date, orders_df)]

\* sync_platform_selection runs on a trigger and writes both checklists
PlatformSync(c, select_all_value, selected_platforms, triggered, orders_df) ==
    LET out == sync_platform_selection(select_all_value, selected_platforms, triggered, orders_df)
    IN  [c EXCEPT !.platform_filter = out.filter,
                  !.platform_select_all = out.select_all,
                  !.platform_call = [triggered |-> triggered,
                                     select_all_value |-> select_all_value,
                                     selected |-> selected_platforms]]

\* sync_group_selection runs on a trigger and writes both checklists
GroupSync(c, select_all_value, selected_groups, triggered) ==
    LET out == sync_group_selection(select_all_value, selected_groups, triggered)
    IN  [c EXCEPT !.group_filter = out.filter,
                  !.group_select_all = out.select_all,
                  !.group_call = [triggered |-> triggered,
                                  select_all_value |-> select_all_value,
                                  selected |-> selected_groups]]

ControlsOnly == UNCHANGED <<synth_vars, dash_vars, draw, rerun>>

\* the page loads: every callback runs once, without a trigger
PageLoad ==
    /\ ~controls.loaded
    /\ controls' =
          [GroupSync(PlatformSync(WeekOffsetChain(controls, controls.period, "", ORDERS_DF),
                                  controls.platform_select_all, controls.platform_filter,
                                  "", ORDERS_DF),
                     controls.group_select_all, controls.group_filter, "")
             EXCEPT !.loaded = TRUE]
    /\ ControlsOnly

\* a click on Prev; the buttons are hidden outside the daily mode by their
\* style only
ClickPrev ==
    /\ controls.loaded
    /\ controls.week_offset < MaxWeekOffset
    /\ controls' = WeekOffsetChain(controls, controls.period, "week-prev", ORDERS_DF)
    /\ ControlsOnly

\* a click on Next
ClickNext ==
    /\ controls.loaded
    /\ controls' = WeekOffsetChain(controls, controls.period, "week-next", ORDERS_DF)
    /\ ControlsOnly

\* another period is chosen
TogglePeriod ==
    /\ controls.loaded
    /\ \E p \in {"daily", "monthly", "custom"} \ {controls.period} :
          controls' = WeekOffsetChain(controls, p, "period-toggle", ORDERS_DF)
    /\ ControlsOnly

\* dates are picked while the picker is enabled; no callback of the controls
\* has the picker as an input
PickDates ==
    /\ controls.loaded
    /\ ~controls.date_controls.disabled
    /\ \E d \in DateRangeChoices :
          controls' = [controls EXCEPT !.date_controls.start_date = d[1],
                                       !.date_controls.end_date = d[2]]
    /\ ControlsOnly

\* "Select all" of the platforms is ticked or unticked
TickAllPlatforms ==
    /\ controls.loaded
    /\ LET ticked == IF controls.platform_select_all = <<>> THEN <<"all">> ELSE <<>>
       IN  controls' = PlatformSync(controls, ticked, controls.platform_filter,
                                    "platform-select-all", ORDERS_DF)
    /\ ControlsOnly

\* one platform is ticked or unticked
TogglePlatform ==
    /\ controls.loaded
    /\ \E p \in Range(available_platforms(ORDERS_DF)) :
          controls' = PlatformSync(controls, controls.platform_select_all,
                                   Toggled(controls.platform_filter, p),
                                   "platform-filter", ORDERS_DF)
    /\ ControlsOnly

\* "Select all" of the groups is ticked or unticked
TickAllGroups ==
    /\ controls.loaded
    /\ LET ticked == IF controls.group_select_all = <<>> THEN <<"all">> ELSE <<>>
       IN  controls' = GroupSync(controls, ticked, controls.group_filter, "group-select-all")
    /\ ControlsOnly

\* one group is ticked or unticked
ToggleGroup ==
    /\ controls.loaded
    /\ \E g \in ExploredGroups :
          controls' = GroupSync(controls, controls.group_select_all,
                                Toggled(controls.group_filter, g), "group-filter")
    /\ ControlsOnly

-----------------------------------------------------------------------------
(* Specifications *)

\* the channel draw with the weights of lines 45-52, not made yet
DrawAsCoded ==
    [population |-> platforms, weights |-> platform_weight_values, outcome |-> NoOutcome]

\* the process before its first start, on 4 March 2026
FirstStart ==
    [stream |-> <<>>, today |-> Date(2026, 3, 4), midnights |-> 0, record_sets |-> <<>>]

\* the order loop before its first iteration
SynthesisAtStart ==
    /\ pc = "start"
    /\ index = 0
    /\ platform = "Shopee"
    /\ order_items = <<>>
    /\ total_qty = 0
    /\ continuation_prob = 9
    /\ picked_items = <<>>
    /\ orders = <<>>
    /\ product_orders = <<>>

\* the page as it loads over the sample orders
DashboardLoaded ==
    /\ ORDERS_DF = OrdersFrame(SampleOrders)
    /\ ORDER_ITEMS_DF = MergedFrame(SampleOrders)
    /\ dash_in = LayoutInputs(ORDERS_DF)
    /\ dash_out = refresh_dashboard(dash_in, ORDERS_DF, ORDER_ITEMS_DF)

Init ==
    /\ pc = "start"
    /\ index = 0
    /\ platform = "Shopee"
    /\ order_items = <<>>
    /\ total_qty = 0
    /\ continuation_prob = 9
    /\ picked_items = <<>>
    /\ orders = <<>>
    /\ product_orders = <<>>
    /\ ORDERS_DF = OrdersFrame(SampleOrders)
    /\ ORDER_ITEMS_DF = MergedFrame(SampleOrders)
    /\ dash_in = LayoutInputs(ORDERS_DF)
    /\ dash_out = refresh_dashboard(dash_in, ORDERS_DF, ORDER_ITEMS_DF)
    /\ draw = DrawAsCoded
    /\ rerun = FirstStart
    /\ controls = LayoutControls(ORDERS_DF)

Next ==
    \/ StartOrder
    \/ PickItem
    \/ ApplyDuoConversion
    \/ AppendRecords

\* the synthesis of the record sets
Spec == Init /\ [][Next]_vars

\* the record sets are the first n sample orders; the page loads with the
\* values of the layout
InitDash ==
    /\ pc = "start"
    /\ index = 0
    /\ platform = "Shopee"
    /\ order_items = <<>>
    /\ total_qty = 0
    /\ continuation_prob = 9
    /\ picked_items = <<>>
    /\ orders = <<>>
    /\ product_orders = <<>>
    /\ \E n \in 1..Len(SampleOrders) :
          /\ ORDERS_DF = OrdersFrame(SubSeq(SampleOrders, 1, n))
          /\ ORDER_ITEMS_DF = MergedFrame(SubSeq(SampleOrders, 1, n))
    /\ dash_in = LayoutInputs(ORDERS_DF)
    /\ dash_out = refresh_dashboard(dash_in, ORDERS_DF, ORDER_ITEMS_DF)
    /\ draw = DrawAsCoded
    /\ rerun = FirstStart
    /\ controls = LayoutControls(ORDERS_DF)

NextDash ==
    \/ ChangePeriod
    \/ ChangeWeekOffset
    \/ ChangeDateRange
    \/ ChangeYear
    \/ ChangeMonths
    \/ ChangePlatforms
    \/ ChangeGroups

\* the dashboard over record sets that stay as they were built
SpecDash == InitDash /\ [][NextDash]_vars

\* one weighted draw, of a channel or of a category, with a weight table
\* whose entries are the code's or zero
InitDraw ==
    /\ SynthesisAtStart
    /\ DashboardLoaded
    /\ \/ \E w \in WeightTables(platform_weight_values) :
             draw = [population |-> platforms, weights |-> w, outcome |-> NoOutcome]
       \/ \E w \in WeightTables(group_weight_values) :
             draw = [population |-> group_names, weights |-> w, outcome |-> NoOutcome]
    /\ rerun = FirstStart
    /\ controls = LayoutControls(ORDERS_DF)

NextDraw ==
    \/ DrawChannel
    \/ DrawGroup

SpecDraw == InitDraw /\ [][NextDraw]_vars

\* the process started twice with the same seed and the same order count
InitRerun ==
    /\ SynthesisAtStart
    /\ DashboardLoaded
    /\ draw = DrawAsCoded
    /\ \E order_count \in 1..MaxRerunOrders : \E stream \in Streams(order_count) :
          rerun = [FirstStart EXCEPT !.stream = stream]
    /\ controls = LayoutControls(ORDERS_DF)

NextRerun ==
    \/ StartProcess
    \/ Midnight

SpecRerun == InitRerun /\ [][NextRerun]_vars

\* the page over the record sets of the first n sample orders, before its
\* callbacks have run
InitControls ==
    /\ SynthesisAtStart
    /\ \E n \in 1..Len(SampleOrders) :
          /\ ORDERS_DF = OrdersFrame(SubSeq(SampleOrders, 1, n))
          /\ ORDER_ITEMS_DF = MergedFrame(SubSeq(SampleOrders, 1, n))
    /\ dash_in = LayoutInputs(ORDERS_DF)
    /\ dash_out = refresh_dashboard(dash_in, ORDERS_DF, ORDER_ITEMS_DF)
    /\ draw = DrawAsCoded
    /\ rerun = FirstStart
    /\ controls = LayoutControls(ORDERS_DF)

NextControls ==
    \/ PageLoad
    \/ ClickPrev
    \/ ClickNext
    \/ TogglePeriod
    \/ PickDates
    \/ TickAllPlatforms
    \/ TogglePlatform
    \/ TickAllGroups
    \/ ToggleGroup

\* the callbacks of the controls
SpecControls == InitControls /\ [][NextControls]_vars

-----------------------------------------------------------------------------
(* Properties of the synthesis *)

TotalQty(items) == SumSeq(Quantities(items))

TotalSales(items) == SumSeq(ItemSales(items))

BundleUnits(items) ==
    SumSeq([k \in 1..Len(items) |->
              IF items[k].product_id \in BundleIds THEN items[k].quantity ELSE 0])

\* the order-item records that carry the order's id
RowsOf(order) ==
    {k \in 1..Len(product_orders) : product_orders[k].order_id = order.order_id}

RowSales(order) ==
    SumSeq([k \in 1..Len(product_orders) |->
              IF k \in RowsOf(order) THEN product_orders[k].item_sales ELSE 0])

\* C1: in every synthesized order the quantities of the items add up to at
\* least 1 and at most 10, both as pick_order_items returns the basket and
\* after apply_duo_conversion, and so in the records that are appended.
C1_QuantityBetween1And10 ==
    /\ pc = "picked" => TotalQty(order_items) >= 1 /\ TotalQty(order_items) <= 10
    /\ pc = "converted" => TotalQty(order_items) >= 1 /\ TotalQty(order_items) <= 10
    /\ orders # <<>> =>
          /\ SumSeq([k \in 1..Len(product_orders) |-> product_orders[k].quantity]) >= 1
          /\ SumSeq([k \in 1..Len(product_orders) |-> product_orders[k].quantity]) <= 10

\* a basket drawn up to the cap that the conversion has rewritten
C1_Witness ==
    /\ pc = "converted"
    /\ TotalQty(picked_items) = 10
    /\ order_items # picked_items

\* C2: the sales field of every order record equals the sum of item_sales
\* over the order-item records appended for that order.
C2_OrderSalesIsSumOfItems ==
    \A o \in Range(orders) : o.sales = RowSales(o)

\* an appended order of several items, one of them a bundle with two units
C2_Witness ==
    /\ orders # <<>>
    /\ Len(product_orders) >= 2
    /\ \E k \in 1..Len(product_orders) :
          product_orders[k].product_id \in BundleIds /\ product_orders[k].quantity >= 2

\* C3: apply_duo_conversion leaves the sum of item_sales over the basket as
\* it was, for every basket and every channel.
C3_ConversionRevenueNeutral ==
    pc = "converted" => TotalSales(order_items) = TotalSales(picked_items)

\* a conversion that used up the accessory and left part of a source entry
C3_Witness ==
    /\ pc = "converted"
    /\ BundleUnits(order_items) >= 2
    /\ ~HasKey(order_items, lamoon.product_id)
    /\ \E k \in 1..Len(order_items) :
          /\ IsConvertible(order_items[k])
          /\ order_items[k].quantity
                < picked_items[KeyIndex(picked_items, order_items[k].product_id)].quantity

\* C4: apply_duo_conversion never raises the basket's total unit count, and
\* no entry that remains has a negative quantity.
C4_NoMoreUnitsNoNegativeQty ==
    pc = "converted" =>
        /\ TotalQty(order_items) <= TotalQty(picked_items)
        /\ \A k \in 1..Len(order_items) : order_items[k].quantity >= 0

\* a conversion of two pairs
C4_Witness ==
    /\ pc = "converted"
    /\ Pairs(picked_items, platform) = 2
    /\ BundleUnits(order_items) = 2

\* C5 as stated: the total unit count is the same before and after the
\* conversion.
C5_UnitCountUnchanged ==
    pc = "converted" => TotalQty(order_items) = TotalQty(picked_items)

\* C5, amended: the conversion lowers the total unit count by the number of
\* pairs it converts, min(accessory quantity, number of convertible units);
\* the count is unchanged only when no pair is converted.
C5_UnitCountDropsByPairs ==
    pc = "converted" =>
        TotalQty(order_items) = TotalQty(picked_items) - Pairs(picked_items, platform)

\* a conversion of three pairs
C5_Witness ==
    /\ pc = "converted"
    /\ Pairs(picked_items, platform) = 3
    /\ TotalQty(order_items) = TotalQty(picked_items) - 3

\* C6: every basket entry and every appended order-item record has
\* item_sales = quantity * the unit price of its product, also when the
\* conversion changed the quantity and when a product was drawn repeatedly.
C6_ItemSalesIsQtyTimesPrice ==
    /\ \A k \in 1..Len(order_items) :
          order_items[k].item_sales =
             order_items[k].quantity * ById(Catalog, order_items[k].product_id).price
    /\ \A k \in 1..Len(product_orders) :
          product_orders[k].item_sales =
             product_orders[k].quantity * ById(Catalog, product_orders[k].product_id).price

\* after a conversion: the accessory entry lowered but kept with several
\* units, and a bundle entry that two conversions were merged into
C6_Witness ==
    /\ pc = "converted"
    /\ \E k \in 1..Len(order_items) :
          /\ order_items[k].product_id = lamoon.product_id
          /\ order_items[k].quantity >= 2
          /\ order_items[k].quantity
                < picked_items[KeyIndex(picked_items, lamoon.product_id)].quantity
    /\ \E k \in 1..Len(order_items) :
          /\ order_items[k].product_id \in BundleIds
          /\ order_items[k].quantity >= 2

\* the products each bundle SKU replaces: those the conversion turns into it
SourcesOf ==
    [b \in BundleIds |->
        {i \in 1..Len(Catalog.registry) :
            /\ IsConvertible(Catalog.registry[i])
            /\ DuoName(Catalog.registry[i]) = ById(Catalog, b).product_name}]

\* every bundle SKU replaces exactly one product and costs as much as that
\* product and the Lamoon cup together
BundlesPricedAsSum ==
    \A b \in BundleIds :
        /\ Cardinality(SourcesOf[b]) = 1
        /\ \A j \in SourcesOf[b] :
              ById(Catalog, b).price = Catalog.registry[j].price + lamoon.price

\* C7: every bundle SKU of the catalog has the price of the product it
\* replaces plus the price of the Lamoon cup; so every bundle entry of a
\* basket is valued at that sum per unit.
C7_BundlePriceIsSum ==
    /\ BundlesPricedAsSum
    /\ \A k \in 1..Len(order_items) :
          order_items[k].product_id \in BundleIds =>
              \A j \in SourcesOf[order_items[k].product_id] :
                  order_items[k].item_sales
                     = order_items[k].quantity * (Catalog.registry[j].price + lamoon.price)

\* a basket in which bundle SKUs of both eligible groups replace their sources
C7_Witness ==
    /\ pc = "converted"
    /\ HasKey(order_items, ByName(Catalog, "Duo set Original 1L").product_id)
    /\ HasKey(order_items, ByName(Catalog, "Duo set On the rock").product_id)

\* C8: no bundle SKU is drawn: the basket holds none while pick_order_items
\* runs and when it returns, and after the conversion it holds exactly one
\* bundle unit per converted pair.
C8_BundlesOnlyByConversion ==
    /\ BundleUnits(picked_items) = 0
    /\ pc \in {"pick", "picked"} => BundleUnits(order_items) = 0
    /\ pc = "converted" => BundleUnits(order_items) = Pairs(picked_items, platform)
    /\ \A g \in Range(PRODUCT_GROUPS) : \A k \in 1..Len(products_by_group[g]) :
          products_by_group[g][k].product_id \notin BundleIds

\* a bundle SKU in an appended order
C8_Witness ==
    /\ orders # <<>>
    /\ \E k \in 1..Len(product_orders) : product_orders[k].product_id \in BundleIds
    /\ BundleUnits(picked_items) = 0

\* the summed item_sales of the appended order-item records of category g
CategorySales(g) ==
    SumSeq([k \in 1..Len(product_orders) |->
              IF product_orders[k].product_category = g
              THEN product_orders[k].item_sales ELSE 0])

\* the categories with the largest summed item_sales among those the
\* appended order holds
TopCategories ==
    {g \in {product_orders[k].product_category : k \in 1..Len(product_orders)} :
        \A k \in 1..Len(product_orders) :
            CategorySales(product_orders[k].product_category) <= CategorySales(g)}

\* C18: the group_name of every appended order is a category with the
\* largest summed item_sales among the order's items after conversion, and
\* among several such categories the one the catalog lists first.
C18_DominantCategoryCatalogTieBreak ==
    \A o \in Range(orders) :
        /\ o.group_name \in TopCategories
        /\ \A i, j \in 1..Len(PRODUCT_GROUPS) :
              (PRODUCT_GROUPS[i] \in TopCategories /\ PRODUCT_GROUPS[j] = o.group_name) => j <= i

\* C20: when the channel is outside the promotion, or the basket holds no
\* Lamoon cup, or it holds no convertible unit, apply_duo_conversion returns
\* the basket with the same entries, quantities and item_sales in the same
\* order.
C20_ConversionNeedsAllThree ==
    (/\ pc = "converted"
     /\ \/ platform \notin eligible_channels
        \/ ~HasKey(picked_items, lamoon.product_id)
        \/ \A k \in 1..Len(picked_items) : ~IsConvertible(picked_items[k])) =>
        order_items = picked_items

\* a basket with the accessory and convertible units of both groups, left as
\* it was on a channel outside the promotion
C20_Witness ==
    /\ pc = "converted"
    /\ platform \notin eligible_channels
    /\ HasKey(picked_items, lamoon.product_id)
    /\ \E j, k \in 1..Len(picked_items) :
          /\ IsConvertible(picked_items[j]) /\ picked_items[j].product_category = "Cold brew"
          /\ IsConvertible(picked_items[k]) /\ picked_items[k].product_category = "Cold drip"
    /\ order_items = picked_items

\* the largest size_ml among the catalog's products of the same category and
\* base name as product
LargestSize(product) ==
    LET sizes == {Catalog.registry[i].size_ml :
                    i \in {j \in 1..Len(Catalog.registry) :
                             /\ Catalog.registry[j].product_category = product.product_category
                             /\ Catalog.registry[j].base_name = product.base_name}}
    IN  CHOOSE x \in sizes : \A y \in sizes : y <= x

\* the ids of the products that are the largest size variant of their base
\* item
LargestVariantIds ==
    {Catalog.registry[i].product_id : i \in
        {j \in 1..Len(Catalog.registry) :
            Catalog.registry[j].size_ml = LargestSize(Catalog.registry[j])}}

\* the ids of the 1L variants of the eligible Cold brew base items and of the
\* 500ml variants of the eligible Cold drip base items
FixedSizeIds ==
    {Catalog.registry[i].product_id : i \in
        {j \in 1..Len(Catalog.registry) :
            \/ /\ Catalog.registry[j].product_category = "Cold brew"
               /\ Catalog.registry[j].base_name \in Range(eligible_cold_brew)
               /\ Catalog.registry[j].size_ml = 1000
            \/ /\ Catalog.registry[j].product_category = "Cold drip"
               /\ Catalog.registry[j].base_name \in Range(eligible_cold_drip)
               /\ Catalog.registry[j].size_ml = 500}}

\* the units of the Lamoon cup in a basket
AccessoryUnits(items) ==
    SumSeq([k \in 1..Len(items) |->
              IF items[k].product_id = lamoon.product_id THEN items[k].quantity ELSE 0])

\* the units of a basket that are of a 1L variant of an eligible Cold brew
\* base item or of a 500ml variant of an eligible Cold drip base item
ConvertibleUnits(items) ==
    SumSeq([k \in 1..Len(items) |->
              IF items[k].product_id \in FixedSizeIds THEN items[k].quantity ELSE 0])

\* C21: on a channel of the promotion apply_duo_conversion adds
\* min(accessory quantity, convertible units) bundle units and takes as many
\* accessory units and as many convertible units away; afterwards the basket
\* does not hold an accessory unit and a convertible unit at once.
C21_PairsConvertedExactly ==
    (pc = "converted" /\ platform \in eligible_channels) =>
        LET n == Min(AccessoryUnits(picked_items), ConvertibleUnits(picked_items))
        IN  /\ BundleUnits(order_items) - BundleUnits(picked_items) = n
            /\ AccessoryUnits(order_items) = AccessoryUnits(picked_items) - n
            /\ ConvertibleUnits(order_items) = ConvertibleUnits(picked_items) - n
            /\ ~(AccessoryUnits(order_items) > 0 /\ ConvertibleUnits(order_items) > 0)

\* two accessory units met three convertible units of two products: two
\* bundle units, one convertible unit left, no accessory left
C21_Witness ==
    /\ pc = "converted"
    /\ platform \in eligible_channels
    /\ AccessoryUnits(picked_items) = 2
    /\ ConvertibleUnits(picked_items) = 3
    /\ Cardinality({k \in 1..Len(picked_items) : picked_items[k].product_id \in FixedSizeIds}) = 2
    /\ BundleUnits(order_items) = 2
    /\ ConvertibleUnits(order_items) = 1
    /\ AccessoryUnits(order_items) = 0

\* the ids of the products whose quantity the conversion has lowered, the
\* accessory left out
ConvertedIds ==
    {picked_items[k].product_id : k \in
        {j \in 1..Len(picked_items) :
            /\ picked_items[j].product_id # lamoon.product_id
            /\ \/ ~HasKey(order_items, picked_items[j].product_id)
               \/ order_items[KeyIndex(order_items, picked_items[j].product_id)].quantity
                     < picked_items[j].quantity}}

\* the ids of the products that have a bundle SKU in the catalog: a bundle SKU
\* carries the base name and the size of the product it was priced from
BundleSourceIds ==
    {Catalog.registry[i].product_id : i \in
        {j \in 1..Len(Catalog.registry) :
            /\ Catalog.registry[j].product_id \notin BundleIds
            /\ Catalog.registry[j].group_name \in {"Cold brew", "Cold drip"}
            /\ \E b \in BundleIds :
                  /\ ById(Catalog, b).base_name = Catalog.registry[j].base_name
                  /\ ById(Catalog, b).size_ml = Catalog.registry[j].size_ml}}

\* C22 as stated: every product that has a bundle SKU, and every product the
\* conversion has taken units of, is the largest size variant of its base
\* item.
C22_ConvertibleIsLargestVariant ==
    /\ BundleSourceIds \subseteq LargestVariantIds
    /\ pc = "converted" => ConvertedIds \subseteq LargestVariantIds

\* C22, amended: eligibility is tied to one size per group: every product
\* that has a bundle SKU, and every product the conversion has taken units
\* of, is the 1L variant of an eligible Cold brew base, which is that base's
\* largest variant, or the 500ml variant of an eligible Cold drip base,
\* whether or not that base also comes in 1L.
C22_ConvertibleIsFixedSizePerGroup ==
    /\ BundleSourceIds \subseteq FixedSizeIds
    /\ \A id \in FixedSizeIds :
          ById(Catalog, id).product_category = "Cold brew" => id \in LargestVariantIds
    /\ pc = "converted" => ConvertedIds \subseteq FixedSizeIds

\* a basket with both sizes of On the rock and the accessory: the 500ml unit
\* was converted, the 1L unit was not
C22_Witness ==
    /\ pc = "converted"
    /\ HasKey(order_items, ByName(Catalog, "Duo set On the rock").product_id)
    /\ ~HasKey(order_items, ByName(Catalog, "On the rock 500ml").product_id)
    /\ HasKey(order_items, ByName(Catalog, "On the rock 1L").product_id)
    /\ HasKey(picked_items, ByName(Catalog, "On the rock 1L").product_id)
    /\ ~HasKey(order_items, lamoon.product_id)

\* while pick_order_items draws, the continuation probability it will test
\* after the next unit is 0.9 less 0.1 per unit already held; the basket can
\* stop after every unit and can go on after every unit but the tenth
StopProbabilityByUnits ==
    /\ continuation_prob >= 0
    /\ pc = "pick" =>
          /\ total_qty < QtyCap
          /\ total_qty = TotalQty(order_items)
          /\ 10 - continuation_prob = total_qty + 1
          /\ ENABLED (PickItem /\ pc' = "picked")
          /\ (total_qty + 1 < QtyCap) => ENABLED (PickItem /\ pc' = "pick")
          /\ (total_qty + 1 = QtyCap) => ~ENABLED (PickItem /\ pc' = "pick")
    /\ pc = "picked" => total_qty = TotalQty(picked_items) /\ total_qty <= QtyCap

\* a unit that does not stop the basket lowers the continuation probability
\* by 0.1, not below 0.0; the unit that stops it leaves the basket as drawn
DecayByTenthPerUnit ==
    pc = "pick" =>
        /\ total_qty' = total_qty + 1
        /\ pc' = "pick" => continuation_prob' = Max(0, continuation_prob - 1)
        /\ pc' = "picked" => picked_items' = order_items'

\* C23: in pick_order_items the basket stops after its k-th unit (k < 10)
\* with probability k/10: the continuation probability is 0.9 after the first
\* unit and 0.1 lower after each further unit, never below 0.0; the basket
\* always stops once it holds 10 units, and it can stop at every size from 1
\* to 10.
C23_StopProbabilityGrowsByTenth == []StopProbabilityByUnits /\ [][DecayByTenthPerUnit]_vars

\* the ninth unit was drawn and the basket went on: the tenth draw is made
\* with continuation probability 0.1
C23_Witness ==
    /\ pc = "pick"
    /\ total_qty = 9
    /\ continuation_prob = 0

-----------------------------------------------------------------------------
(* Properties of the dashboard *)

Figures(out) ==
    {out.fig_sales, out.fig_platform, out.fig_group, out.fig_customer, out.fig_top_products,
     out.fig_customer_monthly, out.fig_product_sales, out.fig_product_qty,
     out.fig_product_monthly}

Kpis(out) == {out.kpi_sales, out.kpi_orders, out.kpi_aov, out.kpi_new}

\* C9: when the channel selection or the category selection is empty,
\* refresh_dashboard returns "N/A" for all four KPI cards and a blank figure
\* without data for every chart, in every period mode and for every date
\* range, week offset, year and month selection.
C9_EmptySelectionGivesNoData ==
    (dash_in.platforms = <<>> \/ dash_in.groups = <<>>) =>
        /\ \A k \in Kpis(dash_out) : k.na
        /\ \A f \in Figures(dash_out) : f.blank /\ f.data = <<>>

\* no channel is selected, every category is, and the date range is read
\* from the picker; the record sets hold rows of every selected category
C9_Witness ==
    /\ dash_in.platforms = <<>>
    /\ dash_in.groups = PRODUCT_GROUPS
    /\ dash_in.period = "custom"
    /\ dash_in.start_date # <<>>
    /\ Len(ORDER_ITEMS_DF) >= 2
    /\ dash_out.kpi_sales.na
    /\ dash_out.fig_sales.blank

\* the rows of the selected channels and categories in the week that daily
\* mode shows, on weekday d
DailyRows(d) ==
    LET latest == MaxDate(ORDERS_DF)
        start == (latest - Weekday(latest)) - 7 * dash_in.week_offset
    IN  SelectSeq(ORDER_ITEMS_DF,
                  LAMBDA r : /\ r.channel \in Range(dash_in.platforms)
                             /\ r.product_category \in Range(dash_in.groups)
                             /\ r.time_stamp = start + d)

\* C10: in daily mode the period sales series has exactly 7 entries, Mon,
\* Tue, Wed, Thu, Fri, Sat, Sun in this order, whichever weekdays have data;
\* a weekday with data carries its sales and a weekday without data carries
\* the value zero.
C10_DailySeriesSevenZeroFilled ==
    (dash_in.period = "daily" /\ ~dash_out.fig_sales.blank) =>
        /\ Len(dash_out.fig_sales.data) = 7
        /\ \A i \in 1..7 :
              /\ dash_out.fig_sales.data[i].period_label
                    = <<"Mon", "Tue", "Wed", "Thu", "Fri", "Sat", "Sun">>[i]
              /\ dash_out.fig_sales.data[i].item_sales = Cell(SalesSum(DailyRows(i - 1)))

\* the rows of the selected channels and categories that the charts are
\* drawn from: those inside the date window of the period mode and, in
\* monthly mode, inside the chosen months
ChartRows ==
    LET window == DateWindow(dash_in.period, dash_in.start_date, dash_in.end_date,
                             dash_in.selected_year, dash_in.week_offset, ORDERS_DF)
    IN  SelectSeq(ORDER_ITEMS_DF,
                  LAMBDA r : /\ r.channel \in Range(dash_in.platforms)
                             /\ r.product_category \in Range(dash_in.groups)
                             /\ window[1] <= r.time_stamp
                             /\ r.time_stamp <= window[2]
                             /\ (dash_in.period = "monthly" /\ dash_in.selected_months # <<>>)
                                   => MONTH_MAP[MonthOf(r.time_stamp)]
                                         \in Range(dash_in.selected_months))

\* the month list in use: the chosen months in calendar order in monthly
\* mode, the twelve months otherwise
MonthsInUse ==
    IF dash_in.period = "monthly" /\ dash_in.selected_months # <<>>
    THEN SelectSeq(MONTH_ORDER, LAMBDA m : m \in Range(dash_in.selected_months))
    ELSE MONTH_ORDER

\* C11: whenever charts are drawn, the New/Returning monthly series has
\* exactly 2 * len(months) rows for the month list in use: for every month of
\* the list and each of the two statuses exactly one row, whose value is the
\* number of orders of that month and status among the charted rows, 0 when
\* there is none.
C11_MonthlyCustomerFullGrid ==
    ~dash_out.fig_customer_monthly.blank =>
        LET data == dash_out.fig_customer_monthly.data
        IN  /\ Len(data) = 2 * Len(MonthsInUse)
            /\ \A m \in Range(MonthsInUse) : \A status \in {"New", "Returning"} :
                  /\ Cardinality({i \in 1..Len(data) :
                                     /\ data[i].month_label = m
                                     /\ data[i].customer_status = status}) = 1
                  /\ \A i \in 1..Len(data) :
                        (data[i].month_label = m /\ data[i].customer_status = status) =>
                            data[i].orders =
                               Cardinality({ChartRows[k].order_id : k \in
                                              {j \in 1..Len(ChartRows) :
                                                 /\ MONTH_MAP[MonthOf(ChartRows[j].time_stamp)] = m
                                                 /\ ChartRows[j].customer_status = status}})

\* monthly mode with two chosen months: four rows, of which one counts
\* orders and one is filled with 0
C11_Witness ==
    /\ dash_in.period = "monthly"
    /\ dash_in.selected_months = <<"Mar", "Dec">>
    /\ ~dash_out.fig_customer_monthly.blank
    /\ Len(dash_out.fig_customer_monthly.data) = 4
    /\ \E i, j \in 1..4 :
          /\ dash_out.fig_customer_monthly.data[i].orders = 0
          /\ dash_out.fig_customer_monthly.data[j].orders > 0

\* C12: whenever charts are drawn, the product-category monthly series holds
\* a row for every month of the canonical month list and every selected
\* category, with the summed item_sales of the charted rows of that month and
\* category, 0 when there is none.
C12_MonthlyProductFullGrid ==
    ~dash_out.fig_product_monthly.blank =>
        LET data == dash_out.fig_product_monthly.data
        IN  \A m \in Range(MONTH_ORDER) : \A g \in Range(dash_in.groups) :
               \E i \in 1..Len(data) :
                  /\ data[i].month_label = m
                  /\ data[i].product_category = g
                  /\ data[i].item_sales =
                        SalesSum(SelectSeq(ChartRows,
                                   LAMBDA r : /\ MONTH_MAP[MonthOf(r.time_stamp)] = m
                                              /\ r.product_category = g))

\* the rows of the selected channels and categories in the calendar month
\* before the month of the latest order
PrevMonthRows ==
    LET latest == MaxDate(ORDERS_DF)
    IN  SelectSeq(ORDER_ITEMS_DF,
                  LAMBDA r : /\ r.channel \in Range(dash_in.platforms)
                             /\ r.product_category \in Range(dash_in.groups)
                             /\ YearOf(r.time_stamp) * 12 + MonthOf(r.time_stamp)
                                   = YearOf(latest) * 12 + MonthOf(latest) - 1)

ReferenceKpisOfPrevMonth ==
    ~dash_out.kpi_sales.na =>
        /\ dash_out.kpi_sales.num = SalesSum(PrevMonthRows)
        /\ dash_out.kpi_orders.num = OrderCount(PrevMonthRows)
        /\ dash_out.kpi_new.num =
              OrderCount(SelectSeq(PrevMonthRows, LAMBDA r : r.customer_status = "New"))

ReferenceKpisKeptByOtherFilters ==
    (dash_in'.platforms = dash_in.platforms /\ dash_in'.groups = dash_in.groups) =>
        /\ dash_out'.kpi_sales = dash_out.kpi_sales
        /\ dash_out'.kpi_orders = dash_out.kpi_orders
        /\ dash_out'.kpi_new = dash_out.kpi_new

\* C13: the cards for total sales, order count and new customers are
\* computed over the rows (of the selected channels and categories) of the
\* calendar month before the month of the latest order date, and a refresh
\* that leaves the channels and the categories as they were leaves the three
\* cards as they were, whatever it does to the period mode, the date range,
\* the year, the week offset and the months.
C13_ReferenceKpisIgnoreWindow ==
    /\ []ReferenceKpisOfPrevMonth
    /\ [][ReferenceKpisKeptByOtherFilters]_vars

\* monthly mode on the year before the reference month's year: the charts
\* hold rows of 2025 only, the cards count the orders of February 2026
C13_Witness ==
    /\ dash_in.period = "monthly"
    /\ dash_in.selected_year = 2025
    /\ ChartRows # <<>>
    /\ \A k \in 1..Len(ChartRows) : YearOf(ChartRows[k].time_stamp) = 2025
    /\ ~dash_out.kpi_sales.na
    /\ dash_out.kpi_sales.num > 0
    /\ dash_out.kpi_orders.num > 0

\* the calendar months (year * 12 + month) that have charted rows
ChartMonths ==
    {YearOf(ChartRows[k].time_stamp) * 12 + MonthOf(ChartRows[k].time_stamp) :
        k \in 1..Len(ChartRows)}

RowsOfMonth(ym) ==
    SelectSeq(ChartRows, LAMBDA r : YearOf(r.time_stamp) * 12 + MonthOf(r.time_stamp) = ym)

\* the product of the monthly distinct order counts
RECURSIVE OrderCountProduct(_)
OrderCountProduct(months) ==
    IF months = {} THEN 1
    ELSE LET ym == CHOOSE x \in months : TRUE
         IN  OrderCount(RowsOfMonth(ym)) * OrderCountProduct(months \ {ym})

\* the sum over the months of sales / orders, times common (a common
\* multiple of the order counts)
RECURSIVE ScaledRatioSum(_, _)
ScaledRatioSum(months, common) ==
    IF months = {} THEN 0
    ELSE LET ym == CHOOSE x \in months : TRUE
         IN  SalesSum(RowsOfMonth(ym)) * (common \div OrderCount(RowsOfMonth(ym)))
                + ScaledRatioSum(months \ {ym}, common)

\* C14: whenever charts are drawn over at least one row, the average order
\* value equals (the sum over the calendar months with charted rows of the
\* month's item sales divided by the month's distinct orders) divided by the
\* number of those months.
C14_AovIsMeanOfMonthlyRatios ==
    (~dash_out.kpi_aov.na /\ ChartRows # <<>>) =>
        /\ dash_out.kpi_aov.den # 0
        /\ dash_out.kpi_aov.num * OrderCountProduct(ChartMonths) * Cardinality(ChartMonths)
              = dash_out.kpi_aov.den
                   * ScaledRatioSum(ChartMonths, OrderCountProduct(ChartMonths))

\* three charted months of which one has two orders: the mean of the monthly
\* ratios differs from sales over orders of the whole period
C14_Witness ==
    /\ ~dash_out.kpi_aov.na
    /\ Cardinality(ChartMonths) = 3
    /\ \E ym \in ChartMonths : OrderCount(RowsOfMonth(ym)) = 2
    /\ dash_out.kpi_aov.num * OrderCount(ChartRows)
          # dash_out.kpi_aov.den * SalesSum(ChartRows)

NormalizedKey(r) ==
    IF r.size_ml # NoSize THEN r.base_name
    ELSE IF r.product_category = "Coffee Bean"
              /\ r.product_name \in {"Original", "Dark", "Fruity", "Milky"}
         THEN "Coffee Bean " \o r.product_name
         ELSE r.product_name

\* the sum of a column over the chart rows of a normalized key
KeyTotal(rows, key, column) ==
    SumSeq([k \in 1..Len(rows) |->
              IF NormalizedKey(rows[k]) = key THEN rows[k][column] ELSE 0])

\* data holds the n largest totals of a column per normalized key of rows,
\* one row per key
IsRollupOf(data, rows, column, n) ==
    LET keys == {NormalizedKey(rows[k]) : k \in 1..Len(rows)}
        shown == {data[i].product_rollup : i \in 1..Len(data)}
    IN  /\ shown \subseteq keys
        /\ Len(data) = Min(n, Cardinality(keys))
        /\ Cardinality(shown) = Len(data)
        /\ \A i \in 1..Len(data) :
              /\ data[i].value = KeyTotal(rows, data[i].product_rollup, column)
              /\ \A key \in keys \ shown : KeyTotal(rows, key, column) <= data[i].value

\* no key holds both a Coffee Bean row and a row of another category
CoffeeBeanKeysApart(rows) ==
    \A j, k \in 1..Len(rows) :
        (rows[j].product_category = "Coffee Bean" /\ rows[k].product_category # "Coffee Bean")
           => ProductRollup(rows[j]) # ProductRollup(rows[k])

\* C24: the product charts aggregate the chart rows by the normalized key
\* (base name of a sized product, product name of an unsized one, the
\* category name in front of the Coffee Bean products Original, Dark, Fruity
\* and Milky); no key holds both a Coffee Bean product and a product of
\* another category, in the chart rows and in the catalog.
C24_RollupByNormalizedKey ==
    (dash_in.platforms # <<>> /\ dash_in.groups # <<>>) =>
        /\ IsRollupOf(dash_out.fig_top_products.data, ChartRows, "item_sales", 5)
        /\ IsRollupOf(dash_out.fig_product_sales.data, ChartRows, "item_sales", 8)
        /\ IsRollupOf(dash_out.fig_product_qty.data, ChartRows, "quantity", 8)
        /\ CoffeeBeanKeysApart(ChartRows)
        /\ CoffeeBeanKeysApart(Catalog.registry)

\* every row of the record sets is charted: the sizes of Original and its
\* bundle are summed under Original, the Coffee Bean product of the same name
\* has a row of its own, and the top five leave two keys out
C24_Witness ==
    /\ dash_in.period = "custom"
    /\ Len(ChartRows) = Len(ORDER_ITEMS_DF)
    /\ Len(dash_out.fig_top_products.data) = 5
    /\ Len(dash_out.fig_product_sales.data) = 7
    /\ \E i, j \in 1..Len(dash_out.fig_product_sales.data) :
          /\ dash_out.fig_product_sales.data[i] = [product_rollup |-> "Original", value |-> 775]
          /\ dash_out.fig_product_sales.data[j] =
                [product_rollup |-> "Coffee Bean Original", value |-> 235]
    /\ \E i \in 1..Len(dash_out.fig_product_qty.data) :
          dash_out.fig_product_qty.data[i] = [product_rollup |-> "Original", value |-> 4]

-----------------------------------------------------------------------------
(* Properties of the weighted draw and of the restart *)

\* C17: when the process has been started twice with the same seed and the
\* same order count, the second start's Order and OrderItem record sets are
\* identical to the first's.
C17_SameSeedSameRecordSets ==
    Len(rerun.record_sets) = 2 => rerun.record_sets[1] = rerun.record_sets[2]

-----------------------------------------------------------------------------
(* Properties of the controls *)

\* C25: the week offset in the Store is an integer that is never negative,
\* whatever Prev clicks, Next clicks and period changes update_week_offset
\* has handled, and a Next click at offset 0 leaves it at 0.
C25_WeekOffsetNeverNegative ==
    /\ controls.week_offset \in Nat
    /\ (controls.week_call.triggered = "week-next" /\ controls.week_call.current_offset = 0)
          => controls.week_offset = 0

\* Next was clicked in daily mode while the latest week was shown
C25_Witness ==
    /\ controls.week_call.triggered = "week-next"
    /\ controls.week_call.period_value = "daily"
    /\ controls.week_call.current_offset = 0
    /\ controls.week_offset = 0

\* the Monday of the week that holds the latest order date
LatestMonday ==
    CHOOSE d \in (MaxDate(ORDERS_DF) - 6)..MaxDate(ORDERS_DF) : Weekday(d) = 0

\* C26: a run of update_week_offset with a period other than daily, or one
\* triggered by the period toggle, leaves the offset at 0; the offset is not 0
\* only after a Prev or Next click in daily mode; so after a switch to daily
\* the date controls show the latest week, Monday to Sunday.
C26_OffsetResetOutsideDailyClicks ==
    /\ controls.period # "daily" => controls.week_offset = 0
    /\ controls.week_call.triggered # "none" =>
          /\ (controls.week_call.period_value # "daily"
                \/ controls.week_call.triggered = "period-toggle")
                => controls.week_offset = 0
          /\ controls.week_offset # 0 =>
                /\ controls.week_call.period_value = "daily"
                /\ controls.week_call.triggered \in {"week-prev", "week-next"}
          /\ (controls.week_call.triggered = "period-toggle" /\ controls.period = "daily") =>
                /\ controls.date_controls.start_date = isoformat(LatestMonday)
                /\ controls.date_controls.end_date = isoformat(LatestMonday + 6)

\* the period was switched away from daily while an earlier week was shown
C26_Witness ==
    /\ controls.week_call.triggered = "period-toggle"
    /\ controls.week_call.period_value # "daily"
    /\ controls.week_call.current_offset > 0
    /\ controls.week_offset = 0

\* the channels that occur in the order records
ChannelsOnOffer == {ORDERS_DF[k].channel : k \in 1..Len(ORDERS_DF)}

\* a checklist and its "Select all" box agree with each other and with the
\* last call of their callback
SelectAllInStep(filter, select_all, call, options, select_all_id) ==
    /\ select_all \in {<<>>, <<"all">>}
    /\ select_all = <<"all">> <=> Range(filter) = options
    /\ call.triggered = select_all_id =>
          IF call.select_all_value = <<"all">>
          THEN Range(filter) = options /\ Len(filter) = Cardinality(options)
          ELSE filter = <<>>
    /\ call.triggered \notin {"none", select_all_id} => filter = call.selected

\* C27: after every run of sync_platform_selection and of
\* sync_group_selection "Select all" is checked exactly when the selected set
\* is the set of all platforms (groups): ticking it selects every option,
\* unticking it selects none, and an edit of the options ticks it exactly when
\* all of them are selected.
C27_SelectAllIffEverySelected ==
    /\ SelectAllInStep(controls.platform_filter, controls.platform_select_all,
                       controls.platform_call, ChannelsOnOffer, "platform-select-all")
    /\ SelectAllInStep(controls.group_filter, controls.group_select_all,
                       controls.group_call, Range(PRODUCT_GROUPS), "group-select-all")

\* a platform was unticked and ticked again: the selection lists every
\* platform in another order than the options, and "Select all" is checked
C27_Witness ==
    /\ controls.platform_call.triggered = "platform-filter"
    /\ controls.platform_filter # available_platforms(ORDERS_DF)
    /\ Range(controls.platform_filter) = ChannelsOnOffer
    /\ controls.platform_select_all = <<"all">>
    /\ controls.group_call.triggered = "group-select-all"
    /\ controls.group_filter = <<>>

====
